---- MODULE Spec2Model ----
(***************************************************************************)
(* Model of the mDNS service discovery core of arduino-mDNS-Query:         *)
(* packet.cpp (wire codec, query builder) and mdns.cpp (response           *)
(* validator, record parser, discovery state), and of the publisher of     *)
(* mqtt_publish.cpp and the clock of rtc.cpp.                              *)
(*                                                                         *)
(* Bytes are naturals 0..255.  A C char array is a sequence of bytes; the  *)
(* C index i is the TLA+ index i+1.  A char array that only ever holds a   *)
(* NUL-terminated string written in one go (path, version, ipStr,          *)
(* lastRequestedService) is modelled by that string; hostname, which       *)
(* decodeDNSName writes byte by byte, is modelled by the array contents    *)
(* with the trailing NUL bytes left out.  The 32-bit ipAddress is modelled  *)
(* by its four bytes, most significant first.                              *)
(***************************************************************************)
EXTENDS Integers, Sequences, FiniteSets, TLC

VARIABLES packetBuffer, queryTransactionID, lastRequestedService,
          discoveredConfig, configURL, udpOut, lastCall,
          mqtt, rtc, uptime, main

vars == <<packetBuffer, queryTransactionID, lastRequestedService,
          discoveredConfig, configURL, udpOut, lastCall,
          mqtt, rtc, uptime, main>>

----------------------------------------------------------------------------
(* Program constants *)

PACKET_BUFFER_SIZE == 256
CONFIG_SERVICE_NAME_MAX_LEN == 128
CONFIG_HOSTNAME_MAX_LEN == 128
CONFIG_PATH_MAX_LEN == 64
CONFIG_VERSION_MAX_LEN == 16
CONFIG_IP_STR_MAX_LEN == 16
CONFIG_URL_MAX_LEN == 256
TXT_STRING_SIZE == 128
\* a limit of nine jumps
MAX_JUMPS_Nine == 10 - 1
MAX_JUMPS == 10
DNS_TYPE_PTR == 12
DNS_CLASS_IN == 1
InitialTransactionID == 4660

\* "config", "tcp", "local"
CONFIG_MDNS_SERVICE_TYPE == <<99, 111, 110, 102, 105, 103>>
CONFIG_MDNS_PROTOCOL == <<116, 99, 112>>
CONFIG_MDNS_DOMAIN == <<108, 111, 99, 97, 108>>

\* "path=", "version=", "http://"
PathKey == <<112, 97, 116, 104, 61>>
VersionKey == <<118, 101, 114, 115, 105, 111, 110, 61>>
HttpPrefix == <<104, 116, 116, 112, 58, 47, 47>>

----------------------------------------------------------------------------
(* C helpers *)

Min(a, b) == IF a < b THEN a ELSE b

\* packet[i] with the C (0-based) index
At(packet, i) == packet[i + 1]

Take(s, n) == SubSeq(s, 1, Min(Len(s), n))

Zeros(n) == [i \in 1..n |-> 0]

\* the C string held by a char array: the bytes before the first NUL
RECURSIVE CStrFrom(_, _)
CStrFrom(buf, i) ==
  IF i > Len(buf) \/ buf[i] = 0 THEN SubSeq(buf, 1, i - 1)
  ELSE CStrFrom(buf, i + 1)

CStr(buf) == CStrFrom(buf, 1)

\* array contents with the trailing NUL bytes left out
RECURSIVE Trim(_)
Trim(buf) ==
  IF Len(buf) > 0 /\ buf[Len(buf)] = 0 THEN Trim(SubSeq(buf, 1, Len(buf) - 1))
  ELSE buf

\* bytes written at the start of an array whose earlier contents were buf
Overlay(buf, bytes) ==
  IF Len(bytes) >= Len(buf) THEN bytes
  ELSE bytes \o SubSeq(buf, Len(bytes) + 1, Len(buf))

\* printf %d / %u of a natural
RECURSIVE Dec(_)
Dec(n) == IF n < 10 THEN <<48 + n>> ELSE Dec(n \div 10) \o <<48 + (n % 10)>>

\* LET x == val IN In(x)
Let(val, In(_)) == In(val)

\* strncmp(s, key, Len(key)) == 0 for a C string s
HasPrefix(s, key) == Len(s) >= Len(key) /\ SubSeq(s, 1, Len(key)) = key

----------------------------------------------------------------------------
(* packet.cpp *)

\* snprintf(buffer, maxLen, "_%s._%s.%s", ...)
ServiceNameText ==
  <<95>> \o CONFIG_MDNS_SERVICE_TYPE \o <<46, 95>> \o CONFIG_MDNS_PROTOCOL
         \o <<46>> \o CONFIG_MDNS_DOMAIN

buildServiceName(maxLen) ==
  [ok |-> Len(ServiceNameText) < maxLen,
   buffer |-> Take(ServiceNameText, maxLen - 1)]

\* The index of the first '.' of name at or after index start, or
\* Len(name) + 1 when there is none: where the for loop of encodeDomainName
\* next finds *p == '.' or leaves
NextDot(name, start) ==
  LET dots == {j \in start..Len(name) : name[j] = 46}
  IN IF dots = {} THEN Len(name) + 1
     ELSE CHOOSE j \in dots : \A k \in dots : j <= k

\* The for loop of encodeDomainName from the start of a label, name[start]
\* in TLA+ indices, to the end of the function; out holds encoded[0..pos-1].
RECURSIVE EncodeLoop(_, _, _, _)
EncodeLoop(name, maxLen, start, out) ==
  LET i == NextDot(name, start)
      labelLen == i - start
      withLabel == out \o <<labelLen>> \o SubSeq(name, start, i - 1)
  IN IF i > Len(name) THEN
       IF labelLen > 0 THEN
         IF labelLen > 63 THEN [len |-> 0, bytes |-> out]
         ELSE IF Len(out) + labelLen + 2 >= maxLen THEN [len |-> 0, bytes |-> out]
         ELSE IF Len(withLabel) >= maxLen THEN [len |-> 0, bytes |-> withLabel]
         ELSE [len |-> Len(withLabel) + 1, bytes |-> withLabel \o <<0>>]
       ELSE IF Len(out) >= maxLen THEN [len |-> 0, bytes |-> out]
       ELSE [len |-> Len(out) + 1, bytes |-> out \o <<0>>]
     ELSE IF labelLen = 0 \/ labelLen > 63 THEN [len |-> 0, bytes |-> out]
     ELSE IF Len(out) + labelLen + 1 >= maxLen THEN [len |-> 0, bytes |-> out]
     ELSE EncodeLoop(name, maxLen, i + 1, withLabel)

\* len: the return value (0 on error); bytes: what was written to encoded[]
encodeDomainName(name, maxLen) ==
  IF maxLen < 2 THEN [len |-> 0, bytes |-> <<>>]
  ELSE EncodeLoop(name, maxLen, 1, <<>>)

\* the header with the recursion-desired flag set
QueryHeader_RecursionDesired(txid) ==
  <<(txid \div 256) % 256, txid % 256, 1, 0, 0, 1, 0, 0, 0, 0, 0, 0>>

QueryHeader(txid) ==
  <<(txid \div 256) % 256, txid % 256, 0, 0, 0, 1, 0, 0, 0, 0, 0, 0>>

\* buildMDNSQuery without the memset and without the two flag bytes
buildMDNSQuery_StaleFlags(packet, maxLen, serviceName, txid) ==
  IF maxLen < 30 THEN [len |-> 0, packet |-> packet]
  ELSE
    Let(encodeDomainName(serviceName, maxLen - 12), LAMBDA enc :
      LET pos == 12 + enc.len
          head == <<(txid \div 256) % 256, txid % 256, At(packet, 2), At(packet, 3),
                    0, 1, 0, 0, 0, 0, 0, 0>> \o enc.bytes
      IN IF enc.len = 0 THEN
           [len |-> 0, packet |-> Overlay(packet, head)]
         ELSE IF pos + 4 > maxLen THEN
           [len |-> 0, packet |-> Overlay(packet, head)]
         ELSE
           [len |-> pos + 4,
            packet |-> Overlay(packet,
                               head \o <<0, DNS_TYPE_PTR, 0, DNS_CLASS_IN>>)])

\* len: the return value; packet: the buffer after the call
buildMDNSQuery(packet, maxLen, serviceName, txid) ==
  IF maxLen < 30 THEN [len |-> 0, packet |-> packet]
  ELSE
    Let(encodeDomainName(serviceName, maxLen - 12), LAMBDA enc :
      LET pos == 12 + enc.len
          head == QueryHeader(txid) \o enc.bytes
      IN IF enc.len = 0 THEN
           [len |-> 0, packet |-> Overlay(Zeros(maxLen), head)]
         ELSE IF pos + 4 > maxLen THEN
           [len |-> 0, packet |-> Overlay(Zeros(maxLen), head)]
         ELSE
           [len |-> pos + 4,
            packet |-> Overlay(Zeros(maxLen),
                               head \o <<0, DNS_TYPE_PTR, 0, DNS_CLASS_IN>>)])

\* nextOffset of a decodeDNSName call that never assigned it
Unset == 0 - 1

\* The while loop of decodeDNSName.  out holds name[0..namePos-1].
\* Result: ok, the bytes written to name[] (terminated: whether a NUL was
\* written after them), nextOffset.
RECURSIVE DecodeLoop(_, _, _, _, _, _, _, _)
DecodeLoop(packet, packetSize, nameMaxLen, pos, out, jumps, jumped, nextOffset) ==
  IF ~(pos < packetSize /\ Len(out) < nameMaxLen - 1) THEN
    [ok |-> TRUE, out |-> out, terminated |-> TRUE,
     nextOffset |-> IF jumped THEN nextOffset ELSE pos]
  ELSE
    LET len == At(packet, pos)
        pos1 == pos + 1
    IN IF len = 0 THEN
         [ok |-> TRUE, out |-> out, terminated |-> TRUE,
          nextOffset |-> IF jumped THEN nextOffset ELSE pos1]
       ELSE IF len >= 192 THEN
         IF pos1 >= packetSize THEN
           [ok |-> FALSE, out |-> out, terminated |-> FALSE, nextOffset |-> nextOffset]
         ELSE
           LET pointer == (len % 64) * 256 + At(packet, pos1)
               next1 == IF jumped THEN nextOffset ELSE pos1 + 1
           IN IF jumps >= MAX_JUMPS THEN
                [ok |-> FALSE, out |-> out, terminated |-> FALSE, nextOffset |-> next1]
              ELSE IF pointer >= packetSize THEN
                [ok |-> FALSE, out |-> out, terminated |-> FALSE, nextOffset |-> next1]
              ELSE DecodeLoop(packet, packetSize, nameMaxLen, pointer, out,
                              jumps + 1, TRUE, next1)
       ELSE IF len > 63 THEN
         [ok |-> FALSE, out |-> out, terminated |-> FALSE, nextOffset |-> nextOffset]
       ELSE
         LET out1 == IF Len(out) > 0 /\ Len(out) < nameMaxLen - 1
                     THEN out \o <<46>> ELSE out
         IN IF pos1 + len > packetSize THEN
              [ok |-> FALSE, out |-> out1, terminated |-> FALSE, nextOffset |-> nextOffset]
            ELSE
              LET n == Min(len, (nameMaxLen - 1) - Len(out1))
              IN DecodeLoop(packet, packetSize, nameMaxLen, pos1 + n,
                            out1 \o SubSeq(packet, pos1 + 1, pos1 + n),
                            jumps, jumped, nextOffset)

\* decodeDNSName reporting an error when the name does not fit the array
decodeDNSName_FailsWhenFull(packet, packetSize, offset, name, nameMaxLen) ==
  IF offset >= packetSize THEN
    [ok |-> FALSE, name |-> name, nextOffset |-> Unset]
  ELSE
    Let(DecodeLoop(packet, packetSize, nameMaxLen, offset, <<>>, 0, FALSE, Unset),
        LAMBDA r :
          [ok |-> r.ok /\ Len(r.out) < nameMaxLen - 1,
           name |-> Trim(Overlay(name, IF r.terminated THEN r.out \o <<0>>
                                       ELSE r.out)),
           nextOffset |-> r.nextOffset])

\* name: the array contents after the call, given its contents before
decodeDNSName(packet, packetSize, offset, name, nameMaxLen) ==
  IF offset >= packetSize THEN
    [ok |-> FALSE, name |-> name, nextOffset |-> Unset]
  ELSE
    Let(DecodeLoop(packet, packetSize, nameMaxLen, offset, <<>>, 0, FALSE, Unset),
        LAMBDA r :
          [ok |-> r.ok,
           name |-> Trim(Overlay(name, IF r.terminated THEN r.out \o <<0>>
                                       ELSE r.out)),
           nextOffset |-> r.nextOffset])

----------------------------------------------------------------------------
(* mdns.cpp *)

\* The while loop of validateResponseService; out holds responseName[0..namePos-1]
RECURSIVE ValidateLoop(_, _, _, _)
ValidateLoop(packet, packetSize, pos, out) ==
  IF ~(pos < packetSize /\ Len(out) < CONFIG_SERVICE_NAME_MAX_LEN - 1) THEN out
  ELSE
    LET len == At(packet, pos)
        pos1 == pos + 1
    IN IF len = 0 THEN out
       ELSE IF len >= 192 THEN out
       ELSE
         LET out1 == IF Len(out) > 0 THEN out \o <<46>> ELSE out
             n == Min(len, Min(packetSize - pos1,
                               (CONFIG_SERVICE_NAME_MAX_LEN - 1) - Len(out1)))
         IN ValidateLoop(packet, packetSize, pos1 + n,
                         out1 \o SubSeq(packet, pos1 + 1, pos1 + n))

validateResponseService(packet, packetSize, lastService) ==
  IF packetSize < 14 THEN FALSE
  ELSE CStr(ValidateLoop(packet, packetSize, 12, <<>>)) = lastService

\* parseSRVRecord reading the port from the weight field (rdata offset 2)
parseSRVRecord_PortAtWeight(packet, packetSize, dataOffset, dataLength, hostname, hostMaxLen, port) ==
  IF dataLength < 6 THEN [ok |-> FALSE, hostname |-> hostname, port |-> port]
  ELSE
    Let(decodeDNSName(packet, packetSize, dataOffset + 6, hostname, hostMaxLen),
        LAMBDA dec :
          [ok |-> dec.ok,
           hostname |-> dec.name,
           port |-> At(packet, dataOffset + 2) * 256 + At(packet, dataOffset + 3)])

parseSRVRecord(packet, packetSize, dataOffset, dataLength, hostname, hostMaxLen, port) ==
  IF dataLength < 6 THEN [ok |-> FALSE, hostname |-> hostname, port |-> port]
  ELSE
    Let(decodeDNSName(packet, packetSize, dataOffset + 6, hostname, hostMaxLen),
        LAMBDA dec :
          [ok |-> dec.ok,
           hostname |-> dec.name,
           port |-> At(packet, dataOffset + 4) * 256 + At(packet, dataOffset + 5)])

\* The while loop of parseTXTRecord
RECURSIVE TXTLoop(_, _, _, _, _, _, _, _)
TXTLoop(packet, pos, endPos, path, pathMaxLen, version, versionMaxLen, foundPath) ==
  IF ~(pos < endPos) THEN [ok |-> foundPath, path |-> path, version |-> version]
  ELSE
    LET strLen == At(packet, pos)
        pos1 == pos + 1
    IN IF strLen = 0 THEN [ok |-> foundPath, path |-> path, version |-> version]
       ELSE
         LET n == Min(strLen, Min(endPos - pos1, TXT_STRING_SIZE - 1))
             txtString == CStr(SubSeq(packet, pos1 + 1, pos1 + n))
             isPath == HasPrefix(txtString, PathKey)
             isVersion == HasPrefix(txtString, VersionKey)
         IN TXTLoop(packet, pos1 + n, endPos,
                    IF isPath
                    THEN Take(SubSeq(txtString, 6, Len(txtString)), pathMaxLen - 1)
                    ELSE path,
                    pathMaxLen,
                    IF isVersion
                    THEN Take(SubSeq(txtString, 9, Len(txtString)), versionMaxLen - 1)
                    ELSE version,
                    versionMaxLen,
                    foundPath \/ isPath)

parseTXTRecord(packet, dataOffset, dataLength, path, pathMaxLen, version, versionMaxLen) ==
  IF dataLength = 0 \/ dataLength > 512 THEN
    [ok |-> FALSE, path |-> path, version |-> version]
  ELSE TXTLoop(packet, dataOffset, dataOffset + dataLength,
               path, pathMaxLen, version, versionMaxLen, FALSE)

\* parseARecord taking the four octets least significant first
parseARecord_LittleEndian(packet, dataOffset, strMaxLen) ==
  LET a == At(packet, dataOffset + 3)
      b == At(packet, dataOffset + 2)
      c == At(packet, dataOffset + 1)
      d == At(packet, dataOffset)
  IN [ipAddress |-> <<a, b, c, d>>,
      ipStr |-> Take(Dec(a) \o <<46>> \o Dec(b) \o <<46>> \o Dec(c) \o <<46>> \o Dec(d),
                     strMaxLen - 1)]

parseARecord(packet, dataOffset, strMaxLen) ==
  LET a == At(packet, dataOffset)
      b == At(packet, dataOffset + 1)
      c == At(packet, dataOffset + 2)
      d == At(packet, dataOffset + 3)
  IN [ipAddress |-> <<a, b, c, d>>,
      ipStr |-> Take(Dec(a) \o <<46>> \o Dec(b) \o <<46>> \o Dec(c) \o <<46>> \o Dec(d),
                     strMaxLen - 1)]

\* ParseRecord in which a TXT record of RDLENGTH 0 empties path and version
ParseRecord_EmptyTXTClears(packet, packetSize, recordType, pos, dataLength, config) ==
  IF recordType = 33 THEN
    Let(parseSRVRecord(packet, packetSize, pos, dataLength,
                       config.hostname, CONFIG_HOSTNAME_MAX_LEN, config.port),
        LAMBDA srv :
          [ok |-> srv.ok,
           config |-> [config EXCEPT !.hostname = srv.hostname, !.port = srv.port]])
  ELSE IF recordType = 16 /\ dataLength = 0 THEN
    [ok |-> FALSE, config |-> [config EXCEPT !.path = <<>>, !.version = <<>>]]
  ELSE IF recordType = 16 THEN
    Let(parseTXTRecord(packet, pos, dataLength,
                       config.path, CONFIG_PATH_MAX_LEN,
                       config.version, CONFIG_VERSION_MAX_LEN),
        LAMBDA txt :
          [ok |-> txt.ok,
           config |-> [config EXCEPT !.path = txt.path, !.version = txt.version]])
  ELSE IF recordType = 1 /\ dataLength = 4 THEN
    Let(parseARecord(packet, pos, CONFIG_IP_STR_MAX_LEN),
        LAMBDA a :
          [ok |-> TRUE,
           config |-> [config EXCEPT !.ipAddress = a.ipAddress, !.ipStr = a.ipStr]])
  ELSE [ok |-> TRUE, config |-> config]

\* The dispatch on the record type in parseAnswerRecords: config after it,
\* and ok, the extractor's return value (which parseAnswerRecords ignores)
ParseRecord(packet, packetSize, recordType, pos, dataLength, config) ==
  IF recordType = 33 THEN
    Let(parseSRVRecord(packet, packetSize, pos, dataLength,
                       config.hostname, CONFIG_HOSTNAME_MAX_LEN, config.port),
        LAMBDA srv :
          [ok |-> srv.ok,
           config |-> [config EXCEPT !.hostname = srv.hostname, !.port = srv.port]])
  ELSE IF recordType = 16 THEN
    Let(parseTXTRecord(packet, pos, dataLength,
                       config.path, CONFIG_PATH_MAX_LEN,
                       config.version, CONFIG_VERSION_MAX_LEN),
        LAMBDA txt :
          [ok |-> txt.ok,
           config |-> [config EXCEPT !.path = txt.path, !.version = txt.version]])
  ELSE IF recordType = 1 /\ dataLength = 4 THEN
    Let(parseARecord(packet, pos, CONFIG_IP_STR_MAX_LEN),
        LAMBDA a :
          [ok |-> TRUE,
           config |-> [config EXCEPT !.ipAddress = a.ipAddress, !.ipStr = a.ipStr]])
  ELSE [ok |-> TRUE, config |-> config]

\* The while loop of parseAnswerRecords.  aborted: the loop was left by a
\* return false; srvFailed: some SRV record of 6 bytes or more whose target
\* did not decode was met (srvFailed0: before this iteration).
RECURSIVE AnswerLoop(_, _, _, _, _, _, _)
AnswerLoop(packet, packetSize, pos, recordsProcessed, ancount, config, srvFailed0) ==
  IF ~(recordsProcessed < ancount /\ pos < packetSize) THEN
    [aborted |-> FALSE, srvFailed |-> srvFailed0, config |-> config]
  ELSE
    Let(decodeDNSName(packet, packetSize, pos, <<>>, CONFIG_HOSTNAME_MAX_LEN),
        LAMBDA dec :
      IF ~dec.ok THEN
        [aborted |-> TRUE, srvFailed |-> srvFailed0, config |-> config]
      ELSE IF dec.nextOffset + 10 > packetSize THEN
        [aborted |-> TRUE, srvFailed |-> srvFailed0, config |-> config]
      ELSE
        LET hdr == dec.nextOffset
            recordType == At(packet, hdr) * 256 + At(packet, hdr + 1)
            dataLength == At(packet, hdr + 8) * 256 + At(packet, hdr + 9)
            data == hdr + 10
        IN IF data + dataLength > packetSize THEN
             [aborted |-> TRUE, srvFailed |-> srvFailed0, config |-> config]
           ELSE
             Let(ParseRecord(packet, packetSize, recordType, data, dataLength, config),
                 LAMBDA rec :
                   AnswerLoop(packet, packetSize, data + dataLength,
                              recordsProcessed + 1, ancount, rec.config,
                              srvFailed0 \/ (recordType = 33 /\ dataLength >= 6
                                             /\ ~rec.ok))))

\* The check that follows the while loop of parseAnswerRecords
CheckRequired(walk) ==
  IF walk.aborted THEN
    [ok |-> FALSE, aborted |-> TRUE, srvFailed |-> walk.srvFailed,
     config |-> walk.config]
  ELSE IF walk.config.port > 0 /\ walk.config.path # <<>> /\ walk.config.ipStr # <<>>
  THEN
    [ok |-> TRUE, aborted |-> FALSE, srvFailed |-> walk.srvFailed,
     config |-> [walk.config EXCEPT !.valid = TRUE]]
  ELSE
    [ok |-> FALSE, aborted |-> FALSE, srvFailed |-> walk.srvFailed,
     config |-> walk.config]

\* parseAnswerRecords clearing the valid flag when the fields are incomplete
parseAnswerRecords_ClearsValid(packet, packetSize, questionPos, ancount, config) ==
  Let(CheckRequired(AnswerLoop(packet, packetSize, questionPos, 0, ancount,
                               config, FALSE)),
      LAMBDA r : IF r.ok \/ r.aborted THEN r
                 ELSE [r EXCEPT !.config = [r.config EXCEPT !.valid = FALSE]])

\* ok: the return value; config: the descriptor after the call
parseAnswerRecords(packet, packetSize, questionPos, ancount, config) ==
  CheckRequired(AnswerLoop(packet, packetSize, questionPos, 0, ancount, config, FALSE))

\* ok: the return value; url: the text left in url[]
buildConfigURL(config, maxLen) ==
  IF ~config.valid \/ config.ipStr = <<>> \/ config.path = <<>> THEN
    [ok |-> FALSE, url |-> <<>>]
  ELSE
    LET text == HttpPrefix \o config.ipStr \o <<58>> \o Dec(config.port) \o config.path
    IN [ok |-> Len(text) < maxLen, url |-> Take(text, maxLen - 1)]

\* The question skip of handleMDNSResponse: questionPos after the loop
RECURSIVE SkipQuestion(_, _, _)
SkipQuestion(packet, bytesRead, questionPos) ==
  IF ~(questionPos < bytesRead) THEN questionPos
  ELSE
    LET len == At(packet, questionPos)
    IN IF len = 0 THEN questionPos + 1
       ELSE IF len >= 192 THEN questionPos + 2
       ELSE SkipQuestion(packet, bytesRead, questionPos + 1 + len)

\* A datagram handleMDNSResponse drops before the answer walk
Dropped(config, url) ==
  [walked |-> FALSE, promoted |-> FALSE, aborted |-> FALSE, srvFailed |-> FALSE,
   config |-> config, url |-> url]

\* handleMDNSResponse after parseAnswerRecords returned r
Walked(r, url) ==
  [walked |-> TRUE, promoted |-> r.ok, aborted |-> r.aborted,
   srvFailed |-> r.srvFailed, config |-> r.config,
   url |-> IF r.ok THEN buildConfigURL(r.config, CONFIG_URL_MAX_LEN).url ELSE url]

\* HandleRead without the test of the QR bit
HandleRead_NoDirectionGate(packet, bytesRead, lastService, config, url) ==
  IF bytesRead < 12 THEN Dropped(config, url)
  ELSE IF ~validateResponseService(packet, bytesRead, lastService) THEN
    Dropped(config, url)
  ELSE
    Let(SkipQuestion(packet, bytesRead, 12) + 4, LAMBDA questionPos :
      LET ancount == At(packet, 6) * 256 + At(packet, 7)
      IN IF ancount > 0 /\ questionPos < bytesRead THEN
           Walked(parseAnswerRecords(packet, bytesRead, questionPos, ancount, config),
                  url)
         ELSE Dropped(config, url))

\* handleMDNSResponse after udp.read: the discovery state and the URL it
\* leaves.  walked: parseAnswerRecords was called; promoted: it returned true.
HandleRead(packet, bytesRead, lastService, config, url) ==
  IF bytesRead < 12 THEN Dropped(config, url)
  ELSE IF ~validateResponseService(packet, bytesRead, lastService) THEN
    Dropped(config, url)
  ELSE
    Let(SkipQuestion(packet, bytesRead, 12) + 4, LAMBDA questionPos :
      LET flags == At(packet, 2) * 256 + At(packet, 3)
          ancount == At(packet, 6) * 256 + At(packet, 7)
      IN IF flags < 32768 THEN Dropped(config, url)
         ELSE IF ancount > 0 /\ questionPos < bytesRead THEN
           Walked(parseAnswerRecords(packet, bytesRead, questionPos, ancount, config),
                  url)
         ELSE Dropped(config, url))

----------------------------------------------------------------------------
(* Datagrams offered to handleMDNSResponse: the response a responder       *)
(* advertising value set v would send, with all or all but one of its      *)
(* three records, and the complete response of value set 1 with one defect.*)

\* number of distinct advertised services (port, host, path, version, address)
NumValueSets == 2
\* every datagram that is not cut short is zero-padded to this length
DgramLen == 132

U16(n) == <<(n \div 256) % 256, n % 256>>

Port(v) == 5049 + v
\* "h<v>.local"
HostName(v) == <<104, 48 + v, 46>> \o CONFIG_MDNS_DOMAIN
\* "/c<v>"
Path(v) == <<47, 99, 48 + v>>
\* "1.<v-1>"
Version(v) == <<49, 46, 47 + v>>
Octets(v) == <<192, 168, 1, 20 + v>>
IpStr(v) == Dec(192) \o <<46>> \o Dec(168) \o <<46>> \o Dec(1) \o <<46>> \o Dec(20 + v)

\* a resource record whose name is a compression pointer to offset 12
RR(type, rdata) ==
  <<192, 12>> \o U16(type) \o <<0, 1>> \o <<0, 0, 0, 120>> \o U16(Len(rdata)) \o rdata

WireName(name) == encodeDomainName(name, 64).bytes

SRV(port, v) == RR(33, <<0, 0, 0, 0>> \o U16(port) \o WireName(HostName(v)))
\* target: label "zz", then the invalid length byte 0x40
SRVBadTarget(port) == RR(33, <<0, 0, 0, 0>> \o U16(port) \o <<2, 122, 122, 64, 0>>)
TXTString(s) == <<Len(s)>> \o s
TXT(path, version) ==
  RR(16, TXTString(PathKey \o path) \o
         (IF version = <<>> THEN <<>> ELSE TXTString(VersionKey \o version)))
A(v) == RR(1, Octets(v))
PTR == RR(12, <<192, 12>>)
\* a record whose name starts with the invalid length byte 0x40
BadNameRR == <<64>> \o U16(1) \o <<0, 1>> \o <<0, 0, 0, 120>> \o U16(0)
\* a record announcing 65535 bytes of rdata
OverrunRR == <<192, 12>> \o U16(99) \o <<0, 1>> \o <<0, 0, 0, 120>> \o U16(65535)

\* which of the three records the responder sends
Subsets == {"none", "noSRV", "noTXT", "noA"}

\* a complete response with one defect
Defects ==
  {"port0", "emptyPath", "noVersion", "badTarget", "badName", "rdlenOverrun",
   "otherType", "truncated", "short", "qrClear", "qnameOther", "qnameRoot",
   "qnamePointer"}

\* "_confix._tcp.local"
OtherServiceName ==
  <<95, 99, 111, 110, 102, 105, 120, 46, 95>> \o CONFIG_MDNS_PROTOCOL
       \o <<46>> \o CONFIG_MDNS_DOMAIN

\* offset of the SRV target in a datagram whose question name ends in a pointer
SRVTargetOffset == 12 + (Len(WireName(ServiceNameText)) + 1) + 4 + 12 + 6

QuestionName(dev) ==
  CASE dev = "qnameOther" -> WireName(OtherServiceName)
    [] dev = "qnameRoot" -> <<0>>
    \* the service name continued by a pointer to the SRV target, so that
    \* the question name is "_config._tcp.local.h1.local"
    [] dev = "qnamePointer" ->
         SubSeq(WireName(ServiceNameText), 1, Len(WireName(ServiceNameText)) - 1)
           \o <<192, SRVTargetOffset>>
    [] OTHER -> WireName(ServiceNameText)

Records(v, dev) ==
  CASE dev = "noSRV" -> <<TXT(Path(v), Version(v)), A(v)>>
    [] dev = "noTXT" -> <<SRV(Port(v), v), A(v)>>
    [] dev = "noA" -> <<SRV(Port(v), v), TXT(Path(v), Version(v))>>
    [] dev = "port0" -> <<SRV(0, v), TXT(Path(v), Version(v)), A(v)>>
    [] dev = "emptyPath" -> <<SRV(Port(v), v), TXT(<<>>, Version(v)), A(v)>>
    [] dev = "noVersion" -> <<SRV(Port(v), v), TXT(Path(v), <<>>), A(v)>>
    [] dev = "badTarget" -> <<SRVBadTarget(Port(v)), TXT(Path(v), Version(v)), A(v)>>
    [] dev = "badName" ->
         <<SRV(Port(v), v), TXT(Path(v), Version(v)), A(v), BadNameRR>>
    [] dev = "rdlenOverrun" ->
         <<SRV(Port(v), v), TXT(Path(v), Version(v)), A(v), OverrunRR>>
    [] dev = "otherType" ->
         <<PTR, SRV(Port(v), v), TXT(Path(v), Version(v)), A(v)>>
    [] OTHER -> <<SRV(Port(v), v), TXT(Path(v), Version(v)), A(v)>>

RECURSIVE Concat(_)
Concat(ss) == IF ss = <<>> THEN <<>> ELSE Head(ss) \o Concat(Tail(ss))

Unpadded(v, dev) ==
  <<0, 0>> \o U16(IF dev = "qrClear" THEN 0 ELSE 33792)
           \o U16(1) \o U16(Len(Records(v, dev))) \o <<0, 0, 0, 0>>
           \o QuestionName(dev) \o U16(DNS_TYPE_PTR) \o U16(DNS_CLASS_IN)
           \o Concat(Records(v, dev))

Dgram(v, dev) ==
  LET d == Unpadded(v, dev)
  IN CASE dev = "short" -> SubSeq(d, 1, 11)
       \* cut inside the fixed header of the last (A) record
       [] dev = "truncated" -> SubSeq(d, 1, Len(d) - 8)
       [] OTHER -> d \o Zeros(DgramLen - Len(d))

Datagrams ==
  {Dgram(v, dev) : v \in 1..NumValueSets, dev \in Subsets}
    \cup {Dgram(1, dev) : dev \in Defects}

----------------------------------------------------------------------------
(* State machine *)

EmptyConfig ==
  [hostname |-> <<>>, port |-> 0, path |-> <<>>, version |-> <<>>,
   ipAddress |-> <<0, 0, 0, 0>>, ipStr |-> <<>>, valid |-> FALSE]

\* the statics of mqtt_publish.cpp before initMQTT; connected: what
\* mqttClient.connected() answers
MqttStatics ==
  [mqtt_status |-> "MQTT_DISCONNECTED", mqtt_initialized |-> FALSE,
   mqtt_config_copy |-> [mqtt_broker |-> <<>>, mqtt_port |-> 0, mqtt_topic |-> <<>>],
   connected |-> FALSE]

\* the statics of rtc.cpp before initRTC; epoch, setAt: the value last given
\* to rtc.setEpoch and the time it was given at; attemptedAt, syncedAt:
\* history, the times of the last WiFi.getTime() query and of the last
\* successful sync (-1: none yet)
RtcStatics ==
  [rtc_status |-> "RTC_UNINITIALIZED", last_sync_time |-> 0,
   last_sync_timestamp |-> 0, epoch |-> 0, setAt |-> 0,
   attemptedAt |-> -1, syncedAt |-> -1]

\* the statics of main.cpp before setup(); mqtt_config: the fields of the
\* MQTTConfig the publisher uses; attemptAge: history, the time since the
\* last call of fetchConfigFromServer, in ticks up to the retry interval
\* (-1: none yet)
MainStatics ==
  [config_fetched |-> FALSE, last_config_fetch_attempt |-> 0,
   mqtt_config |-> [mqtt_broker |-> <<>>, mqtt_port |-> 0, mqtt_topic |-> <<>>],
   mqtt_initialized |-> FALSE, last_publish_time |-> 0, lastQueryTime |-> 0,
   attemptAge |-> -1]

Init ==
  /\ packetBuffer = Zeros(PACKET_BUFFER_SIZE)
  /\ queryTransactionID = InitialTransactionID
  /\ lastRequestedService = <<>>
  /\ discoveredConfig = EmptyConfig
  /\ configURL = <<>>
  /\ udpOut = <<>>
  /\ lastCall = [op |-> "none", packetSize |-> 0, ok |-> FALSE]
  /\ mqtt = MqttStatics
  /\ rtc = RtcStatics
  /\ uptime = 0
  /\ main = MainStatics

\* SendBuilt storing the service name before the datagram is sent
SendBuilt_RemembersBeforeSend(serviceName, q, sent) ==
  IF q.len = 0 THEN
    /\ packetBuffer' = q.packet
    /\ lastCall' = [op |-> "sendMDNSQuery", packetSize |-> 0, ok |-> FALSE]
    /\ UNCHANGED <<queryTransactionID, lastRequestedService,
                   discoveredConfig, configURL, udpOut, mqtt, rtc, uptime, main>>
  ELSE
    /\ packetBuffer' = q.packet
    /\ udpOut' = IF sent THEN SubSeq(q.packet, 1, q.len) ELSE udpOut
    /\ lastRequestedService' = Take(serviceName, CONFIG_SERVICE_NAME_MAX_LEN - 1)
    /\ lastCall' = [op |-> "sendMDNSQuery", packetSize |-> q.len, ok |-> sent]
    /\ UNCHANGED <<queryTransactionID, discoveredConfig, configURL, mqtt, rtc, uptime, main>>

\* sendMDNSQuery after buildServiceName succeeded and buildMDNSQuery
\* returned q; sent: whether udp.endPacket() reports success
SendBuilt(serviceName, q, sent) ==
  IF q.len = 0 THEN
    /\ packetBuffer' = q.packet
    /\ lastCall' = [op |-> "sendMDNSQuery", packetSize |-> 0, ok |-> FALSE]
    /\ UNCHANGED <<queryTransactionID, lastRequestedService,
                   discoveredConfig, configURL, udpOut, mqtt, rtc, uptime, main>>
  ELSE
    /\ packetBuffer' = q.packet
    /\ udpOut' = IF sent THEN SubSeq(q.packet, 1, q.len) ELSE udpOut
    /\ lastRequestedService' =
         IF sent THEN Take(serviceName, CONFIG_SERVICE_NAME_MAX_LEN - 1)
         ELSE lastRequestedService
    /\ lastCall' = [op |-> "sendMDNSQuery", packetSize |-> q.len, ok |-> sent]
    /\ UNCHANGED <<queryTransactionID, discoveredConfig, configURL, mqtt, rtc, uptime, main>>

\* sendMDNSQuery starting every query from an empty descriptor
sendMDNSQuery_ResetsDiscovery(sent) ==
  \E q \in {buildMDNSQuery(packetBuffer, PACKET_BUFFER_SIZE,
                           buildServiceName(CONFIG_SERVICE_NAME_MAX_LEN).buffer,
                           queryTransactionID)} :
    /\ packetBuffer' = q.packet
    /\ udpOut' = IF sent THEN SubSeq(q.packet, 1, q.len) ELSE udpOut
    /\ lastRequestedService' =
         IF sent THEN buildServiceName(CONFIG_SERVICE_NAME_MAX_LEN).buffer
         ELSE lastRequestedService
    /\ lastCall' = [op |-> "sendMDNSQuery", packetSize |-> q.len, ok |-> sent]
    /\ discoveredConfig' = EmptyConfig
    /\ configURL' = <<>>
    /\ UNCHANGED <<queryTransactionID, mqtt, rtc, uptime, main>>

sendMDNSQuery(sent) ==
  IF ~buildServiceName(CONFIG_SERVICE_NAME_MAX_LEN).ok THEN
    /\ lastCall' = [op |-> "sendMDNSQuery", packetSize |-> 0, ok |-> FALSE]
    /\ UNCHANGED <<packetBuffer, queryTransactionID, lastRequestedService,
                   discoveredConfig, configURL, udpOut, mqtt, rtc, uptime, main>>
  ELSE
    \E q \in {buildMDNSQuery(packetBuffer, PACKET_BUFFER_SIZE,
                             buildServiceName(CONFIG_SERVICE_NAME_MAX_LEN).buffer,
                             queryTransactionID)} :
      SendBuilt(buildServiceName(CONFIG_SERVICE_NAME_MAX_LEN).buffer, q, sent)

\* handleMDNSResponse without the size gate, parsing the whole buffer
\* instead of the bytes received
handleMDNSResponse_WholeBuffer(d) ==
  LET packet == Overlay(packetBuffer, Take(d, PACKET_BUFFER_SIZE))
  IN \E r \in {HandleRead(packet, PACKET_BUFFER_SIZE, lastRequestedService,
                          discoveredConfig, configURL)} :
       /\ packetBuffer' = packet
       /\ discoveredConfig' = r.config
       /\ configURL' = r.url
       /\ lastCall' = [op |-> "handleMDNSResponse", packetSize |-> Len(d),
                       ok |-> r.promoted]
       /\ UNCHANGED <<queryTransactionID, lastRequestedService, udpOut, mqtt, rtc, uptime, main>>

\* d: the datagram udp.parsePacket() announced
handleMDNSResponse(d) ==
  LET packetSize == Len(d)
  IN IF packetSize < 12 THEN
       /\ lastCall' = [op |-> "handleMDNSResponse", packetSize |-> packetSize,
                       ok |-> FALSE]
       /\ UNCHANGED <<packetBuffer, queryTransactionID, lastRequestedService,
                      discoveredConfig, configURL, udpOut, mqtt, rtc, uptime, main>>
     ELSE
       LET bytesRead == Min(packetSize, PACKET_BUFFER_SIZE)
           packet == Overlay(packetBuffer, Take(d, PACKET_BUFFER_SIZE))
       IN \E r \in {HandleRead(packet, bytesRead, lastRequestedService,
                               discoveredConfig, configURL)} :
            /\ packetBuffer' = packet
            /\ discoveredConfig' = r.config
            /\ configURL' = r.url
            /\ lastCall' = [op |-> "handleMDNSResponse", packetSize |-> packetSize,
                            ok |-> r.promoted]
            /\ UNCHANGED <<queryTransactionID, lastRequestedService, udpOut, mqtt, rtc, uptime, main>>

Next ==
  \/ \E sent \in BOOLEAN : sendMDNSQuery(sent)
  \/ \E d \in Datagrams : handleMDNSResponse(d)

Spec == Init /\ [][Next]_vars

----------------------------------------------------------------------------
(* Properties of the discovery state *)

\* the step is a handleMDNSResponse call that read its datagram
HandledNow == lastCall'.op = "handleMDNSResponse" /\ lastCall'.packetSize >= 12

\* the bytes udp.read returned in that call
BytesReadNow == Min(lastCall'.packetSize, PACKET_BUFFER_SIZE)

\* what that datagram yields on its own, handled against an empty descriptor
AloneNow ==
  HandleRead(packetBuffer', BytesReadNow, lastRequestedService, EmptyConfig, <<>>)

\* the question name of that datagram, decoded by the wire codec, is the
\* service name of the last query sent
QuestionMatchesNow ==
  LET q == decodeDNSName(packetBuffer', BytesReadNow, 12, <<>>,
                         CONFIG_SERVICE_NAME_MAX_LEN)
  IN q.ok /\ q.name = lastRequestedService

\* the descriptor as a reader of getDiscoveredConfig sees it
Snapshot(config) == [config EXCEPT !.hostname = CStr(@)]

DiscoveryUnchanged ==
  discoveredConfig' = discoveredConfig /\ configURL' = configURL

\* the datagram now in the buffer is the padded datagram d, received whole
Received(d) ==
  /\ lastCall.op = "handleMDNSResponse"
  /\ lastCall.packetSize = Len(d)
  /\ SubSeq(packetBuffer, 1, Len(d)) = d

\* "192.168.1.2<v>" and "505<v-1>"
IpText(v) == <<49, 57, 50, 46, 49, 54, 56, 46, 49, 46, 50, 48 + v>>
PortText(v) == <<53, 48, 53, 47 + v>>

\* C1: the descriptor returned by getDiscoveredConfig is valid only with
\* port > 0, a non-empty path and a non-empty ipStr.
C1_ValidImpliesComplete ==
  discoveredConfig.valid =>
    /\ discoveredConfig.port > 0
    /\ discoveredConfig.path # <<>>
    /\ discoveredConfig.ipStr # <<>>

\* C2: valid changes from false to true only while handling a datagram whose
\* own answer section holds a usable SRV, TXT and A record.
C2_ValidFromOneDatagram ==
  [][(~discoveredConfig.valid /\ discoveredConfig'.valid)
       => (HandledNow /\ AloneNow.promoted)]_vars

\* C3: handling a well-formed response with a matching question name that
\* lacks one of SRV, TXT-with-path or A changes no field of the descriptor.
C3_IncompleteLeavesDescriptor ==
  [][(/\ HandledNow
      /\ QuestionMatchesNow
      /\ At(packetBuffer', 2) >= 128
      /\ ~AloneNow.aborted /\ ~AloneNow.srvFailed /\ ~AloneNow.promoted)
       => discoveredConfig' = discoveredConfig]_vars

\* C4: when the processing of a datagram stops on a decoding error, the
\* descriptor is the same after handleMDNSResponse as before it.
C4_DecodeErrorLeavesDescriptor ==
  [][(HandledNow /\ (AloneNow.aborted \/ AloneNow.srvFailed))
       => discoveredConfig' = discoveredConfig]_vars

\* C5: after a promotion every field of the snapshot comes from the datagram
\* just handled; nothing survives from an earlier one.
C5_PromotionReplacesWhole ==
  [][(HandledNow /\ lastCall'.ok)
       => Snapshot(discoveredConfig') = Snapshot(AloneNow.config)]_vars

\* C6: once the valid flag is true, no call resets it to false.
C6_ValidIsSticky ==
  [][discoveredConfig.valid => discoveredConfig'.valid]_vars

\* a datagram that promotes nothing was handled while the descriptor was valid
C6_Witness ==
  /\ discoveredConfig.valid
  /\ lastCall.op = "handleMDNSResponse"
  /\ lastCall.packetSize >= 12
  /\ ~lastCall.ok

\* C7: the complete response of a service (SRV, TXT with path= and version=,
\* A), answering the last query sent, leaves exactly that service's values
\* in the descriptor, and the URL built is http://<ip>:<port><path>.
C7_CompleteResponse ==
  [][\A v \in 1..NumValueSets :
       (/\ lastCall'.op = "handleMDNSResponse"
        /\ lastCall'.packetSize = DgramLen
        /\ SubSeq(packetBuffer', 1, DgramLen) = Dgram(v, "none")
        /\ lastRequestedService = ServiceNameText)
         => /\ Snapshot(discoveredConfig') =
                 [hostname |-> HostName(v), port |-> Port(v), path |-> Path(v),
                  version |-> Version(v), ipAddress |-> Octets(v),
                  ipStr |-> IpText(v), valid |-> TRUE]
            /\ configURL' = HttpPrefix \o IpText(v) \o <<58>> \o PortText(v)
                                       \o Path(v)]_vars

\* the complete response of value set 2 was handled after a query was sent
C7_Witness ==
  /\ Received(Dgram(2, "none"))
  /\ lastRequestedService = ServiceNameText
  /\ lastCall.ok

\* C8: a datagram whose question name differs from the service name of the
\* last query sent never changes the discovery state.
C8_OtherQuestionIgnored ==
  [][(HandledNow /\ ~QuestionMatchesNow) => DiscoveryUnchanged]_vars

\* C9: a datagram whose QR bit is clear never changes the discovery state.
C9_QueryIgnored ==
  [][(HandledNow /\ At(packetBuffer', 2) < 128) => DiscoveryUnchanged]_vars

\* a complete datagram with the QR bit clear and the right question name was
\* handled while nothing was discovered yet
C9_Witness ==
  /\ Received(Dgram(1, "qrClear"))
  /\ lastRequestedService = ServiceNameText
  /\ ~discoveredConfig.valid

\* C10: handleMDNSResponse on fewer than 12 bytes changes neither the
\* discovery state nor the retained service name.
C10_ShortDatagramIgnored ==
  [][(lastCall'.op = "handleMDNSResponse" /\ lastCall'.packetSize < 12)
       => (DiscoveryUnchanged /\ lastRequestedService' = lastRequestedService)]_vars

\* a datagram of fewer than 12 bytes was handled after a query was sent
C10_Witness ==
  /\ lastCall.op = "handleMDNSResponse"
  /\ lastCall.packetSize < 12
  /\ lastCall.packetSize > 0
  /\ lastRequestedService = ServiceNameText

\* C27: a datagram passes the question-name gate exactly when
\* decodeDNSName at offset 12 succeeds and yields the service name of the
\* last query sent.
C27_GateAgreesWithCodec ==
  [][HandledNow
       => (validateResponseService(packetBuffer', BytesReadNow, lastRequestedService)
             <=> QuestionMatchesNow)]_vars

----------------------------------------------------------------------------
(* Properties of the query sender *)

\* the transaction id in bytes 0-1 of a datagram
SentId(d) == At(d, 0) * 256 + At(d, 1)

\* the step is a sendMDNSQuery call
SendNow == lastCall'.op = "sendMDNSQuery"

\* C11: of two consecutive successful sendMDNSQuery calls, the second
\* datagram carries the id of the first plus one modulo 65536.
C11_TransactionIdIncrements ==
  [][(SendNow /\ lastCall'.ok /\ udpOut # <<>>)
       => SentId(udpOut') = (SentId(udpOut) + 1) % 65536]_vars

\* C20: no sendMDNSQuery call changes the discovery state, and once a query
\* was sent, further calls leave lastRequestedService as it is.
C20_SendLeavesDiscovery ==
  [][SendNow => /\ DiscoveryUnchanged
                /\ udpOut # <<>> => lastRequestedService' = lastRequestedService]_vars

\* a query sent after a service was discovered
C20_Witness ==
  /\ lastCall.op = "sendMDNSQuery" /\ lastCall.ok
  /\ discoveredConfig.valid /\ configURL # <<>>
  /\ lastRequestedService = ServiceNameText

\* the query for _config._tcp.local with the transaction id txid, byte by
\* byte
QueryBytes(txid) ==
  <<txid \div 256, txid % 256, 0, 0, 0, 1, 0, 0, 0, 0, 0, 0,
    7, 95, 99, 111, 110, 102, 105, 103, 4, 95, 116, 99, 112,
    5, 108, 111, 99, 97, 108, 0, 0, 12, 0, 1>>

\* C35: the bytes sendMDNSQuery transmits are given by the service name and
\* the transaction id alone; no byte that a received datagram left in the
\* packet buffer is in a sent query.
C35_QueryBytesFresh ==
  [][(SendNow /\ lastCall'.ok) => udpOut' = QueryBytes(queryTransactionID)]_vars

\* a query sent from a buffer that held a response of value set 2: the
\* buffer holds the query and zeros
C35_Witness ==
  /\ lastCall.op = "sendMDNSQuery" /\ lastCall.ok
  /\ discoveredConfig.valid /\ discoveredConfig.port = Port(2)
  /\ udpOut = QueryBytes(InitialTransactionID)
  /\ packetBuffer = Overlay(Zeros(PACKET_BUFFER_SIZE), udpOut)

\* C36: until a sendMDNSQuery call has succeeded, handleMDNSResponse does
\* not change the discovery state, whatever datagram arrives.
C36_NothingBeforeFirstQuery ==
  [][(HandledNow /\ udpOut = <<>>) => DiscoveryUnchanged]_vars

----------------------------------------------------------------------------
(* Calls of the wire codec and of the query builder on their own: the      *)
(* initial state holds the arguments of one call, the action runs it.      *)

\* longest name enumerated over the alphabet {'a', '.'}
MaxNameLen == 4
\* longest packet enumerated over PacketBytes
MaxPacketLen == 3
\* longest chain of compression pointers
MaxChain == 12

\* all sequences over alphabet of length at most n
RECURSIVE Strings(_, _)
Strings(alphabet, n) ==
  IF n = 0 THEN {<<>>}
  ELSE LET shorter == Strings(alphabet, n - 1)
       IN shorter \cup {Append(w, c) : w \in shorter, c \in alphabet}

\* a label of n letters
Label(n) == [i \in 1..n |-> 97]
\* n one-letter labels separated by dots
OneLetterLabels(n) == [i \in 1..(2 * n - 1) |-> IF i % 2 = 1 THEN 97 ELSE 46]

Names ==
  Strings({97, 46}, MaxNameLen)
    \cup {Label(63), Label(64), Label(63) \o <<46>> \o Label(63),
          <<97, 46>> \o Label(64), OneLetterLabels(64), ServiceNameText}

\* the names that are also decoded
DecodedNames == Names \ {OneLetterLabels(64)}

\* capacities offered to encodeDomainName
EncodeCaps == (0..(MaxNameLen + 3)) \cup {64, 65, 66, 67, 129, 130, 131, 244}
\* capacities offered to buildMDNSQuery
BuildCaps == {29, 30, 35, 36, 37, 38, 80, 81, 82, 83, PACKET_BUFFER_SIZE}
\* sizes of the output array offered to decodeDNSName
NameCaps == (1..(MaxNameLen + 3)) \cup {64, 65, 128, 129, 130}

\* bytes of the enumerated packets: root, label lengths 1 and 2, the invalid
\* lengths 64 and 191, a letter, a compression pointer
PacketBytes == {0, 1, 2, 64, 97, 191, 192}

\* "a" and the root label, then k pointers, each to the one before it (the
\* first to offset 0)
RECURSIVE ChainPacket(_)
ChainPacket(k) ==
  IF k = 0 THEN <<1, 97, 0>>
  ELSE ChainPacket(k - 1) \o <<192, IF k = 1 THEN 0 ELSE 2 * k - 1>>
\* the offset of the last pointer of ChainPacket(k)
ChainStart(k) == IF k = 0 THEN 0 ELSE 2 * k + 1

\* a name array of n bytes followed by two bytes that are not part of it
Guarded(n) == [i \in 1..(n + 2) |-> 255]

EncodeCalls ==
  {[op |-> "encodeDomainName", name |-> n, maxLen |-> m, done |-> FALSE]
     : n \in Names, m \in EncodeCaps}

BuildCalls ==
  {[op |-> "buildMDNSQuery", name |-> n, maxLen |-> m, done |-> FALSE]
     : n \in Names, m \in BuildCaps}

RoundTripCalls ==
  {[op |-> "roundTrip", name |-> n, maxLen |-> PACKET_BUFFER_SIZE - 12,
    nameMaxLen |-> m, done |-> FALSE]
     : n \in DecodedNames, m \in NameCaps}

DecodeCall(packet, offset, nameMaxLen) ==
  [op |-> "decodeDNSName", packet |-> packet, packetSize |-> Len(packet),
   offset |-> offset, nameMaxLen |-> nameMaxLen, done |-> FALSE]

DecodeCalls ==
  {DecodeCall(p, o, m) : p \in Strings(PacketBytes, MaxPacketLen),
                         o \in 0..(MaxPacketLen - 1), m \in {1, 2, 3, 4, 128}}
    \cup {DecodeCall(ChainPacket(k), ChainStart(k), m)
            : k \in 0..MaxChain, m \in {1, 2, 3, 128}}
    \cup {DecodeCall(encodeDomainName(n, PACKET_BUFFER_SIZE).bytes, 0, m)
            : n \in {x \in DecodedNames : encodeDomainName(x, PACKET_BUFFER_SIZE).len > 0},
              m \in NameCaps}

CodecInit ==
  /\ packetBuffer = Zeros(PACKET_BUFFER_SIZE)
  /\ queryTransactionID = InitialTransactionID
  /\ lastRequestedService = <<>>
  /\ discoveredConfig = EmptyConfig
  /\ configURL = <<>>
  /\ udpOut = <<>>
  /\ lastCall \in EncodeCalls \cup BuildCalls \cup RoundTripCalls \cup DecodeCalls
  /\ mqtt = MqttStatics
  /\ rtc = RtcStatics
  /\ uptime = 0
  /\ main = MainStatics

Pending(op) == lastCall.op = op /\ ~lastCall.done

CodecFrame ==
  UNCHANGED <<packetBuffer, queryTransactionID, lastRequestedService,
              discoveredConfig, configURL, udpOut, mqtt, rtc, uptime, main>>

encodeDomainNameCall ==
  /\ Pending("encodeDomainName")
  /\ \E enc \in {encodeDomainName(lastCall.name, lastCall.maxLen)} :
       lastCall' = [op |-> "encodeDomainName", name |-> lastCall.name,
                    maxLen |-> lastCall.maxLen, done |-> TRUE,
                    len |-> enc.len, bytes |-> enc.bytes]
  /\ CodecFrame

\* buildMDNSQuery on a buffer of maxLen bytes of its own
buildMDNSQueryCall ==
  /\ Pending("buildMDNSQuery")
  /\ \E q \in {buildMDNSQuery(Guarded(lastCall.maxLen), lastCall.maxLen,
                              lastCall.name, queryTransactionID)} :
       lastCall' = [op |-> "buildMDNSQuery", name |-> lastCall.name,
                    maxLen |-> lastCall.maxLen, done |-> TRUE,
                    len |-> q.len, packet |-> q.packet]
  /\ CodecFrame

decodeDNSNameCall ==
  /\ Pending("decodeDNSName")
  /\ \E dec \in {decodeDNSName(lastCall.packet, lastCall.packetSize, lastCall.offset,
                               Guarded(lastCall.nameMaxLen), lastCall.nameMaxLen)} :
       lastCall' = [op |-> "decodeDNSName", packet |-> lastCall.packet,
                    packetSize |-> lastCall.packetSize, offset |-> lastCall.offset,
                    nameMaxLen |-> lastCall.nameMaxLen, done |-> TRUE,
                    ok |-> dec.ok, out |-> dec.name, nextOffset |-> dec.nextOffset]
  /\ CodecFrame

\* encodeDomainName, then decodeDNSName on the bytes it produced
roundTripCall ==
  /\ Pending("roundTrip")
  /\ \E enc \in {encodeDomainName(lastCall.name, lastCall.maxLen)} :
       \E dec \in {decodeDNSName(enc.bytes, enc.len, 0,
                                 Guarded(lastCall.nameMaxLen), lastCall.nameMaxLen)} :
         lastCall' = [op |-> "roundTrip", name |-> lastCall.name,
                      maxLen |-> lastCall.maxLen, nameMaxLen |-> lastCall.nameMaxLen,
                      done |-> TRUE, len |-> enc.len, bytes |-> enc.bytes,
                      ok |-> dec.ok, out |-> dec.name, nextOffset |-> dec.nextOffset]
  /\ CodecFrame

CodecNext ==
  \/ encodeDomainNameCall
  \/ buildMDNSQueryCall
  \/ decodeDNSNameCall
  \/ roundTripCall

CodecSpec == CodecInit /\ [][CodecNext]_vars

----------------------------------------------------------------------------
(* Properties of the wire codec and of the query builder *)

\* the call held by lastCall has run
CodecDone(op) == lastCall.op = op /\ lastCall.done

\* the labels of a dotted name: where they start, and where the one
\* starting at index s ends
DotsOf(name) == {j \in 1..Len(name) : name[j] = 46}
LabelStarts(name) == {1} \cup {j + 1 : j \in DotsOf(name)}
LabelEnd(name, s) ==
  CHOOSE e \in (s - 1)..Len(name) :
    /\ e = Len(name) \/ name[e + 1] = 46
    /\ \A j \in s..e : name[j] # 46
LabelLength(name, s) == LabelEnd(name, s) - s + 1

\* every label of the name has 1 to 63 bytes
ValidName(name) == \A s \in LabelStarts(name) : LabelLength(name, s) \in 1..63

\* sum of the label lengths + number of labels + 1 root byte
EncodedSize(name) ==
  (Len(name) - Cardinality(DotsOf(name))) + Cardinality(LabelStarts(name)) + 1

\* the wire form of a valid name: each label behind its length, then the root
LabelEncoding(name) ==
  [j \in 1..EncodedSize(name) |->
     IF j = EncodedSize(name) THEN 0
     ELSE IF j \in LabelStarts(name) THEN LabelLength(name, j)
     ELSE name[j - 1]]

\* The name found at offset pos of a packet, read as RFC 1035 lays it out,
\* following at most limit pointers: how it ends ("root", "truncated",
\* "badLength", "badPointer", or "loop" when more pointers would have to be
\* followed), the pointers followed and the dotted text read so far.
RECURSIVE Follow(_, _, _, _, _, _)
Follow(packet, packetSize, pos, jumps, text, limit) ==
  IF pos >= packetSize THEN [end |-> "truncated", jumps |-> jumps, text |-> text]
  ELSE IF packet[pos + 1] = 0 THEN [end |-> "root", jumps |-> jumps, text |-> text]
  ELSE IF packet[pos + 1] >= 192 THEN
    IF pos + 1 >= packetSize THEN
      [end |-> "truncated", jumps |-> jumps, text |-> text]
    ELSE IF jumps = limit THEN [end |-> "loop", jumps |-> jumps, text |-> text]
    ELSE IF (packet[pos + 1] - 192) * 256 + packet[pos + 2] >= packetSize THEN
      [end |-> "badPointer", jumps |-> jumps, text |-> text]
    ELSE Follow(packet, packetSize, (packet[pos + 1] - 192) * 256 + packet[pos + 2],
                jumps + 1, text, limit)
  ELSE IF packet[pos + 1] > 63 THEN
    [end |-> "badLength", jumps |-> jumps, text |-> text]
  ELSE IF pos + 1 + packet[pos + 1] > packetSize THEN
    [end |-> "truncated", jumps |-> jumps, text |-> text]
  ELSE Follow(packet, packetSize, pos + 1 + packet[pos + 1], jumps,
              (IF text = <<>> THEN <<>> ELSE text \o <<46>>)
                \o SubSeq(packet, pos + 2, pos + 1 + packet[pos + 1]),
              limit)

\* the name the decodeDNSName call of lastCall was pointed at
NameFollowed ==
  Follow(lastCall.packet, lastCall.packetSize, lastCall.offset, 0, <<>>, 10)

\* the output array has room for more than the text of that name
Room == Len(NameFollowed.text) + 1 < lastCall.nameMaxLen

\* the bytes behind the output array are as they were before the call
GuardIntact(out, n) == Len(out) = n + 2 /\ out[n + 1] = 255 /\ out[n + 2] = 255

\* C12: a successful query build yields flags 0, QDCOUNT 1, the other counts
\* 0, the length-prefixed service name ended by a zero byte, QTYPE 12 and
\* QCLASS 1, and returns 12 + encoded-name length + 4.
C12_QueryFormat ==
  (CodecDone("buildMDNSQuery") /\ lastCall.len > 0 /\ ValidName(lastCall.name))
    => LET n == LabelEncoding(lastCall.name)
           p == lastCall.packet
       IN /\ SubSeq(p, 1, 2) = U16(queryTransactionID)
          /\ SubSeq(p, 3, 12) = <<0, 0, 0, 1, 0, 0, 0, 0, 0, 0>>
          /\ SubSeq(p, 13, 12 + Len(n)) = n
          /\ SubSeq(p, 13 + Len(n), 16 + Len(n)) = <<0, 12, 0, 1>>
          /\ lastCall.len = 12 + Len(n) + 4

\* the query for "_config._tcp.local" built in the 256-byte packet buffer
C12_Witness ==
  /\ CodecDone("buildMDNSQuery") /\ lastCall.name = ServiceNameText
  /\ lastCall.maxLen = PACKET_BUFFER_SIZE /\ lastCall.len = 36

\* C13: for a name of labels of 1-63 bytes whose encoding fits, decoding the
\* bytes encodeDomainName produced, from offset 0 into an array larger than
\* the name, succeeds, yields the name and sets nextOffset to the encoded
\* length.
C13_RoundTrip ==
  (/\ CodecDone("roundTrip") /\ ValidName(lastCall.name) /\ lastCall.len > 0
   /\ lastCall.nameMaxLen > Len(lastCall.name))
    => /\ lastCall.ok
       /\ SubSeq(lastCall.out, 1, Len(lastCall.name) + 1) = lastCall.name \o <<0>>
       /\ lastCall.nextOffset = lastCall.len

\* C14: encodeDomainName returns 0 for every name with an empty label or a
\* label longer than 63 bytes, and does not reject a name of labels of 1-63
\* bytes for its labels.
C14_BadLabelsRejected ==
  CodecDone("encodeDomainName")
    => /\ ~ValidName(lastCall.name) => lastCall.len = 0
       /\ (ValidName(lastCall.name) /\ EncodedSize(lastCall.name) < lastCall.maxLen)
            => lastCall.len > 0

\* C15: for a name of labels of 1-63 bytes, encodeDomainName succeeds exactly
\* when the encoded form is at most maxLen bytes, and never writes at an
\* index >= maxLen.
C15_FitsExactly ==
  (CodecDone("encodeDomainName") /\ ValidName(lastCall.name))
    => /\ lastCall.len > 0 <=> EncodedSize(lastCall.name) <= lastCall.maxLen
       /\ Len(lastCall.bytes) <= lastCall.maxLen

C17_SuccessNeedsRoot ==
  (CodecDone("decodeDNSName") /\ Room /\ lastCall.ok) => NameFollowed.end = "root"

\* C18: when the name is longer than nameMaxLen-1 characters, decodeDNSName
\* succeeds and leaves its first nameMaxLen-1 characters and a NUL; it never
\* writes at an index >= nameMaxLen.
C18_Truncation ==
  CodecDone("decodeDNSName")
    => /\ GuardIntact(lastCall.out, lastCall.nameMaxLen)
       /\ (/\ NameFollowed.end = "root"
           /\ Len(NameFollowed.text) > lastCall.nameMaxLen - 1)
            => /\ lastCall.ok
               /\ SubSeq(lastCall.out, 1, lastCall.nameMaxLen)
                    = Take(NameFollowed.text, lastCall.nameMaxLen - 1) \o <<0>>

\* "a.aa" decoded into an array of 3 bytes
C18_Witness ==
  /\ CodecDone("decodeDNSName") /\ lastCall.nameMaxLen = 3
  /\ NameFollowed.end = "root" /\ NameFollowed.text = <<97, 46, 97, 97>>
  /\ lastCall.ok /\ SubSeq(lastCall.out, 1, 3) = <<97, 46, 0>>

\* where the record that holds the name at offset pos goes on: behind the
\* root label the labels lead to, or behind the first pointer among them
\* (-1 when the packet ends before either)
RECURSIVE NameEnd(_, _, _)
NameEnd(packet, packetSize, pos) ==
  IF pos >= packetSize THEN -1
  ELSE IF packet[pos + 1] = 0 THEN pos + 1
  ELSE IF packet[pos + 1] >= 192 THEN pos + 2
  ELSE NameEnd(packet, packetSize, pos + 1 + packet[pos + 1])

\* C26: for every successful decodeDNSName call on a name that ends at a
\* root label, nextOffset is the index just past the root label when no
\* pointer was met (also when the output was truncated) and the index just
\* past the first pointer otherwise.
C26_ResumePosition ==
  (CodecDone("decodeDNSName") /\ lastCall.ok /\ NameFollowed.end = "root")
    => lastCall.nextOffset
         = NameEnd(lastCall.packet, lastCall.packetSize, lastCall.offset)

----------------------------------------------------------------------------
(* sendMDNSQuery in builds configured with other service names *)

\* the texts "_<type>._<protocol>.<domain>" can come to: short names, names
\* with an empty label, labels of 63 and 64 bytes, a text of 129 characters
\* longest short service name enumerated
MaxServiceNameLen == 2

ServiceNames ==
  Strings({97, 46}, MaxServiceNameLen)
    \cup {ServiceNameText, Label(63), Label(64), <<97, 46>> \o Label(64),
          Label(63) \o <<46>> \o Label(63), OneLetterLabels(64),
          Label(63) \o <<46>> \o Label(63) \o <<46, 97>>}

\* sendMDNSQuery when snprintf in buildServiceName produces text
sendMDNSQueryNamed(text, sent) ==
  IF ~(Len(text) < CONFIG_SERVICE_NAME_MAX_LEN) THEN
    /\ lastCall' = [op |-> "sendMDNSQuery", packetSize |-> 0, ok |-> FALSE]
    /\ UNCHANGED <<packetBuffer, queryTransactionID, lastRequestedService,
                   discoveredConfig, configURL, udpOut, mqtt, rtc, uptime, main>>
  ELSE
    \E q \in {buildMDNSQuery(packetBuffer, PACKET_BUFFER_SIZE, text,
                             queryTransactionID)} :
      SendBuilt(text, q, sent)

SendNext == \E text \in ServiceNames, sent \in BOOLEAN : sendMDNSQueryNamed(text, sent)

SendSpec == Init /\ [][SendNext]_vars

\* C19: a sendMDNSQuery call that fails (the name or its encoding does not
\* fit, or the UDP send is rejected) returns false and keeps
\* lastRequestedService; when the build fails nothing goes out.
C19_FailedSendKeepsName ==
  [][(SendNow /\ ~lastCall'.ok)
       => /\ lastRequestedService' = lastRequestedService
          /\ lastCall'.packetSize = 0 => udpOut' = udpOut]_vars

\* a query that could not be built, after one that was sent
C19_Witness ==
  /\ lastCall.op = "sendMDNSQuery" /\ ~lastCall.ok /\ lastCall.packetSize = 0
  /\ lastRequestedService # <<>> /\ udpOut # <<>>
  /\ SubSeq(packetBuffer, 1, 12) = QueryHeader(queryTransactionID)

----------------------------------------------------------------------------
(* The packet bytes read by handleMDNSResponse and the functions it calls: *)
(* each operator follows the control flow of its function and yields the   *)
(* highest index at which the function reads packet[] (hi: the highest     *)
(* index read before; -1: none).                                           *)

Max(a, b) == IF a > b THEN a ELSE b

\* the while loop of decodeDNSName reading the second byte of a pointer
\* without testing pos against packetSize
RECURSIVE DecodeReads_PointerUnchecked(_, _, _, _, _, _, _)
DecodeReads_PointerUnchecked(packet, packetSize, nameMaxLen, pos, namePos, jumps, hi) ==
  IF ~(pos < packetSize /\ namePos < nameMaxLen - 1) THEN hi
  ELSE
    LET len == At(packet, pos)
        pos1 == pos + 1
    IN IF len = 0 THEN Max(hi, pos)
       ELSE IF len >= 192 THEN
         LET pointer == (len % 64) * 256 + At(packet, pos1)
         IN IF jumps >= MAX_JUMPS \/ pointer >= packetSize THEN Max(hi, pos1)
            ELSE DecodeReads_PointerUnchecked(packet, packetSize, nameMaxLen, pointer,
                                              namePos, jumps + 1, Max(hi, pos1))
       ELSE IF len > 63 THEN Max(hi, pos)
       ELSE
         LET namePos1 == IF namePos > 0 /\ namePos < nameMaxLen - 1
                         THEN namePos + 1 ELSE namePos
             n == Min(len, (nameMaxLen - 1) - namePos1)
         IN IF pos1 + len > packetSize THEN Max(hi, pos)
            ELSE DecodeReads_PointerUnchecked(packet, packetSize, nameMaxLen, pos1 + n,
                                              namePos1 + n, jumps, Max(hi, pos1 + n - 1))

\* the while loop of decodeDNSName
RECURSIVE DecodeReads(_, _, _, _, _, _, _)
DecodeReads(packet, packetSize, nameMaxLen, pos, namePos, jumps, hi) ==
  IF ~(pos < packetSize /\ namePos < nameMaxLen - 1) THEN hi
  ELSE
    LET len == At(packet, pos)
        pos1 == pos + 1
    IN IF len = 0 THEN Max(hi, pos)
       ELSE IF len >= 192 THEN
         IF pos1 >= packetSize THEN Max(hi, pos)
         ELSE
           LET pointer == (len % 64) * 256 + At(packet, pos1)
           IN IF jumps >= MAX_JUMPS \/ pointer >= packetSize THEN Max(hi, pos1)
              ELSE DecodeReads(packet, packetSize, nameMaxLen, pointer, namePos,
                               jumps + 1, Max(hi, pos1))
       ELSE IF len > 63 THEN Max(hi, pos)
       ELSE
         LET namePos1 == IF namePos > 0 /\ namePos < nameMaxLen - 1
                         THEN namePos + 1 ELSE namePos
             n == Min(len, (nameMaxLen - 1) - namePos1)
         IN IF pos1 + len > packetSize THEN Max(hi, pos)
            ELSE DecodeReads(packet, packetSize, nameMaxLen, pos1 + n, namePos1 + n,
                             jumps, Max(hi, pos1 + n - 1))

decodeDNSNameReads(packet, packetSize, offset, nameMaxLen) ==
  IF offset >= packetSize THEN -1
  ELSE DecodeReads(packet, packetSize, nameMaxLen, offset, 0, 0, -1)

\* the while loop of validateResponseService
RECURSIVE ValidateReads(_, _, _, _, _)
ValidateReads(packet, packetSize, pos, namePos, hi) ==
  IF ~(pos < packetSize /\ namePos < CONFIG_SERVICE_NAME_MAX_LEN - 1) THEN hi
  ELSE
    LET len == At(packet, pos)
        pos1 == pos + 1
    IN IF len = 0 \/ len >= 192 THEN Max(hi, pos)
       ELSE
         LET namePos1 == IF namePos > 0 THEN namePos + 1 ELSE namePos
             n == Min(len, Min(packetSize - pos1,
                               (CONFIG_SERVICE_NAME_MAX_LEN - 1) - namePos1))
         IN ValidateReads(packet, packetSize, pos1 + n, namePos1 + n,
                          Max(hi, pos1 + n - 1))

\* the question skip of handleMDNSResponse
RECURSIVE SkipReads(_, _, _, _)
SkipReads(packet, bytesRead, questionPos, hi) ==
  IF ~(questionPos < bytesRead) THEN hi
  ELSE
    LET len == At(packet, questionPos)
    IN IF len = 0 \/ len >= 192 THEN Max(hi, questionPos)
       ELSE SkipReads(packet, bytesRead, questionPos + 1 + len, Max(hi, questionPos))

\* the while loop of parseTXTRecord
RECURSIVE TXTReads(_, _, _, _)
TXTReads(packet, pos, endPos, hi) ==
  IF ~(pos < endPos) THEN hi
  ELSE
    LET strLen == At(packet, pos)
        pos1 == pos + 1
        n == Min(strLen, Min(endPos - pos1, TXT_STRING_SIZE - 1))
    IN IF strLen = 0 THEN Max(hi, pos)
       ELSE TXTReads(packet, pos1 + n, endPos, Max(hi, pos1 + n - 1))

\* parseSRVRecord, parseTXTRecord or parseARecord, as parseAnswerRecords
\* dispatches on the record type
RecordReads(packet, packetSize, recordType, pos, dataLength) ==
  IF recordType = 33 THEN
    IF dataLength < 6 THEN -1
    ELSE Max(pos + 5, decodeDNSNameReads(packet, packetSize, pos + 6,
                                         CONFIG_HOSTNAME_MAX_LEN))
  ELSE IF recordType = 16 THEN
    IF dataLength = 0 \/ dataLength > 512 THEN -1
    ELSE TXTReads(packet, pos, pos + dataLength, -1)
  ELSE IF recordType = 1 /\ dataLength = 4 THEN pos + 3
  ELSE -1

\* the while loop of parseAnswerRecords
RECURSIVE AnswerReads(_, _, _, _, _, _)
AnswerReads(packet, packetSize, pos, recordsProcessed, ancount, hi) ==
  IF ~(recordsProcessed < ancount /\ pos < packetSize) THEN hi
  ELSE
    Let(decodeDNSName(packet, packetSize, pos, <<>>, CONFIG_HOSTNAME_MAX_LEN),
        LAMBDA dec :
      Let(Max(hi, decodeDNSNameReads(packet, packetSize, pos, CONFIG_HOSTNAME_MAX_LEN)),
          LAMBDA hi1 :
        IF ~dec.ok THEN hi1
        ELSE IF dec.nextOffset + 10 > packetSize THEN hi1
        ELSE
          LET hdr == dec.nextOffset
              recordType == At(packet, hdr) * 256 + At(packet, hdr + 1)
              dataLength == At(packet, hdr + 8) * 256 + At(packet, hdr + 9)
              data == hdr + 10
          IN IF data + dataLength > packetSize THEN Max(hi1, hdr + 9)
             ELSE AnswerReads(packet, packetSize, data + dataLength,
                              recordsProcessed + 1, ancount,
                              Max(Max(hi1, hdr + 9),
                                  RecordReads(packet, packetSize, recordType,
                                              data, dataLength)))))

\* handleMDNSResponse after udp.read returned bytesRead >= 12 bytes
HandleReads(packet, bytesRead, lastService) ==
  Let(IF bytesRead < 14 THEN -1 ELSE ValidateReads(packet, bytesRead, 12, 0, -1),
      LAMBDA gate :
    IF ~validateResponseService(packet, bytesRead, lastService) THEN gate
    ELSE IF At(packet, 2) * 256 + At(packet, 3) < 32768 THEN Max(gate, 7)
    ELSE IF At(packet, 6) * 256 + At(packet, 7) = 0 THEN Max(gate, 7)
    ELSE
      Let(SkipQuestion(packet, bytesRead, 12) + 4, LAMBDA questionPos :
        IF questionPos < bytesRead THEN
          Max(Max(gate, SkipReads(packet, bytesRead, 12, 7)),
              AnswerReads(packet, bytesRead, questionPos, 0,
                          At(packet, 6) * 256 + At(packet, 7), -1))
        ELSE Max(gate, SkipReads(packet, bytesRead, 12, 7))))

----------------------------------------------------------------------------
(* Calls of the response handler and of the record extractors *)

\* the buffer when the datagram d arrives after a complete response of
\* value set 2 has been handled: what lies behind the bytes of d is what
\* that response left there
After(d) == Overlay(Overlay(Zeros(PACKET_BUFFER_SIZE), Unpadded(2, "none")), d)

\* a response header and question followed by the bytes t
Tailed(t) ==
  <<0, 0>> \o U16(33792) \o U16(1) \o U16(2) \o <<0, 0, 0, 0>>
           \o WireName(ServiceNameText) \o U16(DNS_TYPE_PTR) \o U16(DNS_CLASS_IN) \o t

\* handleMDNSResponse after a query for the configured service: every
\* datagram of the generator cut at every length from 12 bytes on, and
\* datagrams that end in a few arbitrary bytes
HandleCalls ==
  {[op |-> "handleMDNSResponse", packet |-> After(Take(Unpadded(v, dev), n)),
    bytesRead |-> Len(Take(Unpadded(v, dev), n)), done |-> FALSE]
     : v \in 1..NumValueSets, dev \in Subsets \cup Defects,
       n \in 12..DgramLen}
    \cup {[op |-> "handleMDNSResponse", packet |-> After(Tailed(t)),
           bytesRead |-> Len(Tailed(t)), done |-> FALSE]
            : t \in Strings(PacketBytes, MaxPacketLen)}

\* most character-strings in the rdata of one TXT record
MaxTxtStrings == 3

\* a character-string of n bytes that is no key the parser knows
Filler(n) == [i \in 1..n |-> 120]

\* the character-strings a TXT record is made of: path=/c1, version=1.0,
\* k=v, and strings of 1 to 255 bytes
TxtPool ==
  {PathKey \o Path(1), VersionKey \o Version(1), <<107, 61, 118>>}
    \cup {Filler(n) : n \in {1, TXT_STRING_SIZE - 1, TXT_STRING_SIZE, 200, 255}}

RECURSIVE TxtRdata(_)
TxtRdata(strings) ==
  IF strings = <<>> THEN <<>>
  ELSE <<Len(Head(strings))>> \o Head(strings) \o TxtRdata(Tail(strings))

\* parseTXTRecord on rdata of at most 512 bytes that stands between a record
\* header and a following record, with a descriptor that is empty or holds
\* the values of value set 2
TXTCalls ==
  {[op |-> "parseTXTRecord", strings |-> ss,
    packet |-> <<0, Len(TxtRdata(ss))>> \o TxtRdata(ss)
                 \o TXT(Path(2), Version(2)),
    dataOffset |-> 2, dataLength |-> Len(TxtRdata(ss)),
    path |-> old[1], version |-> old[2], done |-> FALSE]
     : ss \in {x \in Strings(TxtPool, MaxTxtStrings)
                 : x # <<>> /\ Len(TxtRdata(x)) <= 512},
       old \in {<<<<>>, <<>>>>, <<Path(2), Version(2)>>}}

\* SRV rdata: priority, weight, port and target
SrvRdata(port, target) == <<0, 0, 0, 0>> \o U16(port) \o target

\* the bytes in front of the SRV rdata: the name "local" at offset 0
SrvLead == WireName(CONFIG_MDNS_DOMAIN)

\* SRV targets: h1.local in full, h1 and a pointer to "local", a label
\* followed by the length byte 0x40, a pointer past the packet, a label
\* the packet ends in, no target at all, a pointer to itself
SrvTargets ==
  {WireName(HostName(1)), <<2, 104, 49, 192, 0>>, <<2, 122, 122, 64, 0>>,
   <<2, 104, 49, 192, 200>>, <<2, 104>>, <<>>, <<192, Len(SrvLead) + 6>>}

\* parseSRVRecord on a record that ends the packet, and on records of fewer
\* than 6 bytes, with a descriptor that is empty or holds the values of
\* value set 2
SRVCalls ==
  {[op |-> "parseSRVRecord", packet |-> SrvLead \o SrvRdata(Port(1), t),
    packetSize |-> Len(SrvLead \o SrvRdata(Port(1), t)),
    dataOffset |-> Len(SrvLead), dataLength |-> Len(SrvRdata(Port(1), t)),
    hostname |-> old[1], port |-> old[2], done |-> FALSE]
     : t \in SrvTargets, old \in {<<<<>>, 0>>, <<HostName(2), Port(2)>>}}
    \cup {[op |-> "parseSRVRecord",
           packet |-> SrvLead \o SrvRdata(Port(1), WireName(HostName(1))),
           packetSize |-> Len(SrvLead \o SrvRdata(Port(1), WireName(HostName(1)))),
           dataOffset |-> Len(SrvLead), dataLength |-> n,
           hostname |-> old[1], port |-> old[2], done |-> FALSE]
            : n \in 0..5, old \in {<<<<>>, 0>>, <<HostName(2), Port(2)>>}}

\* most records in the answer section of one walk
MaxRecords == 3

\* a resource record: owner name, type, the RDLENGTH its header states and
\* the rdata bytes that follow the header
Rec(name, type, rdlength, rdata) ==
  [name |-> name, type |-> type, rdlength |-> rdlength, rdata |-> rdata]

RecBytes(r) ==
  r.name \o U16(r.type) \o <<0, 1>> \o <<0, 0, 0, 120>> \o U16(r.rdlength) \o r.rdata

\* an owner name of three labels of 43 letters, 131 characters in all
LongOwner ==
  encodeDomainName(Label(43) \o <<46>> \o Label(43) \o <<46>> \o Label(43),
                   PACKET_BUFFER_SIZE).bytes

\* The records of the walks: the SRV, TXT and A records of value set 1, an
\* A record for 0.255.10.7, TXT records that state RDLENGTH 0 and 513, A
\* records of 0, 3 and 5 bytes, an SRV record of 4 bytes, a PTR and an AAAA
\* record, and a PTR record with the long owner name
WalkRecord(tag) ==
  CASE tag = "SRV" -> Rec(<<192, 12>>, 33, Len(SrvRdata(Port(1), WireName(HostName(1)))),
                          SrvRdata(Port(1), WireName(HostName(1))))
    [] tag = "TXT" -> Rec(<<192, 12>>, 16, Len(TxtRdata(<<PathKey \o Path(1)>>)),
                          TxtRdata(<<PathKey \o Path(1)>>))
    [] tag = "A" -> Rec(<<192, 12>>, 1, 4, Octets(1))
    [] tag = "Aodd" -> Rec(<<192, 12>>, 1, 4, <<0, 255, 10, 7>>)
    [] tag = "TXT0" -> Rec(<<192, 12>>, 16, 0, <<>>)
    [] tag = "TXT513" -> Rec(<<192, 12>>, 16, 513, TxtRdata(<<VersionKey \o Version(1)>>))
    [] tag = "A0" -> Rec(<<192, 12>>, 1, 0, <<>>)
    [] tag = "A3" -> Rec(<<192, 12>>, 1, 3, <<10, 0, 0>>)
    [] tag = "A5" -> Rec(<<192, 12>>, 1, 5, <<10, 0, 0, 1, 2>>)
    [] tag = "SRV4" -> Rec(<<192, 12>>, 33, 4, <<0, 0, 0, 0>>)
    [] tag = "PTR" -> Rec(<<192, 12>>, 12, 2, <<192, 12>>)
    [] tag = "AAAA" -> Rec(<<192, 12>>, 28, 16, Octets(2) \o Octets(2) \o Octets(2) \o Octets(2))
    [] tag = "PTRlong" -> Rec(LongOwner, 12, 2, <<192, 12>>)

WalkTags ==
  {"SRV", "TXT", "A", "Aodd", "TXT0", "TXT513", "A0", "A3", "A5", "SRV4",
   "PTR", "AAAA", "PTRlong"}

RECURSIVE WalkBytes(_)
WalkBytes(tags) ==
  IF tags = <<>> THEN <<>>
  ELSE RecBytes(WalkRecord(Head(tags))) \o WalkBytes(Tail(tags))

\* the response that carries the records tags in its answer section
Response(tags) ==
  <<0, 0>> \o U16(33792) \o U16(1) \o U16(Len(tags)) \o <<0, 0, 0, 0>>
           \o WireName(ServiceNameText) \o U16(DNS_TYPE_PTR) \o U16(DNS_CLASS_IN)
           \o WalkBytes(tags)

\* where the answer section of these responses starts
AnswerStart == 12 + Len(WireName(ServiceNameText)) + 4

\* the descriptor after a complete response of value set 2
Discovered ==
  [hostname |-> HostName(2), port |-> Port(2), path |-> Path(2),
   version |-> Version(2), ipAddress |-> Octets(2), ipStr |-> IpStr(2),
   valid |-> TRUE]

\* parseAnswerRecords as handleMDNSResponse calls it on the responses of at
\* most MaxRecords records that fit the buffer, with a descriptor that is
\* empty or holds the values of value set 2
WalkCalls ==
  {[op |-> "parseAnswerRecords", records |-> tags,
    packet |-> Overlay(Zeros(PACKET_BUFFER_SIZE), Response(tags)),
    packetSize |-> Len(Response(tags)), questionPos |-> AnswerStart,
    ancount |-> Len(tags), config |-> old, done |-> FALSE]
     : tags \in {x \in Strings(WalkTags, MaxRecords)
                   : x # <<>> /\ Len(Response(x)) <= PACKET_BUFFER_SIZE},
       old \in {EmptyConfig, Discovered}}

ParseInit ==
  /\ packetBuffer = Zeros(PACKET_BUFFER_SIZE)
  /\ queryTransactionID = InitialTransactionID
  /\ lastRequestedService = ServiceNameText
  /\ discoveredConfig = EmptyConfig
  /\ configURL = <<>>
  /\ udpOut = <<>>
  /\ lastCall \in HandleCalls \cup TXTCalls \cup SRVCalls \cup WalkCalls
  /\ mqtt = MqttStatics
  /\ rtc = RtcStatics
  /\ uptime = 0
  /\ main = MainStatics

\* handleMDNSResponse when udp.read filled the buffer as lastCall says;
\* highestRead: the highest index of packetBuffer it read
handleMDNSResponseCall ==
  /\ Pending("handleMDNSResponse")
  /\ \E r \in {HandleRead(lastCall.packet, lastCall.bytesRead, lastRequestedService,
                          discoveredConfig, configURL)} :
       /\ packetBuffer' = lastCall.packet
       /\ discoveredConfig' = r.config
       /\ configURL' = r.url
       /\ lastCall' = [op |-> "handleMDNSResponse", packet |-> lastCall.packet,
                       bytesRead |-> lastCall.bytesRead, done |-> TRUE,
                       walked |-> r.walked, promoted |-> r.promoted,
                       highestRead |-> HandleReads(lastCall.packet, lastCall.bytesRead,
                                                   lastRequestedService)]
  /\ UNCHANGED <<queryTransactionID, lastRequestedService, udpOut, mqtt, rtc, uptime, main>>

ParseFrame ==
  UNCHANGED <<packetBuffer, queryTransactionID, lastRequestedService,
              discoveredConfig, configURL, udpOut, mqtt, rtc, uptime, main>>

\* path, version: the arrays before the call; newPath, newVersion: after
parseTXTRecordCall ==
  /\ Pending("parseTXTRecord")
  /\ \E txt \in {parseTXTRecord(lastCall.packet, lastCall.dataOffset,
                                lastCall.dataLength,
                                lastCall.path, CONFIG_PATH_MAX_LEN,
                                lastCall.version, CONFIG_VERSION_MAX_LEN)} :
       lastCall' = [lastCall EXCEPT !.done = TRUE] @@
                   [ok |-> txt.ok, newPath |-> txt.path, newVersion |-> txt.version]
  /\ ParseFrame

\* hostname, port: the descriptor fields before the call; newHostname,
\* newPort: after
parseSRVRecordCall ==
  /\ Pending("parseSRVRecord")
  /\ \E srv \in {parseSRVRecord(lastCall.packet, lastCall.packetSize,
                                lastCall.dataOffset, lastCall.dataLength,
                                lastCall.hostname, CONFIG_HOSTNAME_MAX_LEN,
                                lastCall.port)} :
       lastCall' = [lastCall EXCEPT !.done = TRUE] @@
                   [ok |-> srv.ok, newHostname |-> srv.hostname, newPort |-> srv.port]
  /\ ParseFrame

\* config: the descriptor before the call; newConfig: after
parseAnswerRecordsCall ==
  /\ Pending("parseAnswerRecords")
  /\ \E r \in {parseAnswerRecords(lastCall.packet, lastCall.packetSize,
                                  lastCall.questionPos, lastCall.ancount,
                                  lastCall.config)} :
       lastCall' = [lastCall EXCEPT !.done = TRUE] @@
                   [ok |-> r.ok, aborted |-> r.aborted, newConfig |-> r.config]
  /\ ParseFrame

ParseNext ==
  \/ handleMDNSResponseCall
  \/ parseTXTRecordCall
  \/ parseSRVRecordCall
  \/ parseAnswerRecordsCall

ParseSpec == ParseInit /\ [][ParseNext]_vars

\* C28: handleMDNSResponse and the functions it calls never read a packet
\* byte at an index >= the number of bytes received.
C28_ReadsStayInside ==
  CodecDone("handleMDNSResponse") => lastCall.highestRead < lastCall.bytesRead

\* a complete response was walked to the last byte of its A record, the
\* last byte received
C28_Witness ==
  /\ CodecDone("handleMDNSResponse")
  /\ lastCall.promoted
  /\ lastCall.bytesRead = Len(Unpadded(1, "none"))
  /\ lastCall.highestRead = lastCall.bytesRead - 1

\* what a sequence of character-strings leaves in path and version when
\* every string is looked at in turn
RECURSIVE TxtExpected(_, _, _)
TxtExpected(strings, path, version) ==
  IF strings = <<>> THEN [path |-> path, version |-> version]
  ELSE
    LET str == Head(strings)
        isPath == Len(str) >= 5 /\ SubSeq(str, 1, 5) = <<112, 97, 116, 104, 61>>
        isVersion ==
          Len(str) >= 8 /\ SubSeq(str, 1, 8) = <<118, 101, 114, 115, 105, 111, 110, 61>>
    IN TxtExpected(Tail(strings),
                   IF isPath THEN SubSeq(str, 6, Len(str)) ELSE path,
                   IF isVersion THEN SubSeq(str, 9, Len(str)) ELSE version)

\* C29: for TXT rdata made of character-strings of 1 to 255 bytes, every
\* string is consumed in full before the next length byte is read: a
\* path= or version= string is recognised wherever it stands in the
\* sequence, and unrecognised keys change nothing.
C29_TxtStringsConsumed ==
  CodecDone("parseTXTRecord")
    => /\ lastCall.newPath
            = TxtExpected(lastCall.strings, lastCall.path, lastCall.version).path
       /\ lastCall.newVersion
            = TxtExpected(lastCall.strings, lastCall.path, lastCall.version).version

\* the target of the SRV record of lastCall, read as RFC 1035 lays it out
SrvTarget ==
  Follow(lastCall.packet, lastCall.packetSize, lastCall.dataOffset + 6, 0, <<>>, 10)

\* C30: SRV extraction is all-or-nothing: with RDLENGTH < 6 or a target
\* that fails to decode neither port nor hostname changes; otherwise port
\* is the big-endian value at rdata offset 4 and hostname the decoded
\* target.
C30_SrvAllOrNothing ==
  CodecDone("parseSRVRecord")
    => IF lastCall.dataLength < 6 \/ SrvTarget.end # "root"
       THEN /\ ~lastCall.ok
            /\ lastCall.newPort = lastCall.port
            /\ lastCall.newHostname = lastCall.hostname
       ELSE /\ lastCall.ok
            /\ lastCall.newPort
                 = lastCall.packet[lastCall.dataOffset + 5] * 256
                     + lastCall.packet[lastCall.dataOffset + 6]
            /\ CStr(lastCall.newHostname) = SrvTarget.text

\* the records tags without the records in drop
Without(tags, drop) == SelectSeq(tags, LAMBDA t : t \notin drop)

\* what parseAnswerRecords yields on the response that carries tags
WalkOf(tags, config) ==
  parseAnswerRecords(Overlay(Zeros(PACKET_BUFFER_SIZE), Response(tags)),
                     Len(Response(tags)), AnswerStart, Len(tags), config)

\* the walk of lastCall has run, over records with compressed owner names
\* of which one is in tags
WalkedOver(tags) ==
  /\ CodecDone("parseAnswerRecords")
  /\ \A i \in 1..Len(lastCall.records) : lastCall.records[i] # "PTRlong"
  /\ \E i \in 1..Len(lastCall.records) : lastCall.records[i] \in tags

\* the walk of lastCall left what the walk over the records tags leaves
SameAsWalkOf(tags) ==
  /\ lastCall.ok = WalkOf(tags, lastCall.config).ok
  /\ lastCall.aborted = WalkOf(tags, lastCall.config).aborted
  /\ lastCall.newConfig = WalkOf(tags, lastCall.config).config

\* the records of lastCall in front of the first one with the tag t
Before(t) ==
  SubSeq(lastCall.records, 1,
         (CHOOSE i \in 1..Len(lastCall.records) :
            /\ lastCall.records[i] = t
            /\ \A j \in 1..(i - 1) : lastCall.records[j] # t) - 1)

\* C31 as stated: a TXT record with RDLENGTH 0 or > 512 extracts nothing
\* and does not stop the walk, so the walk leaves what it leaves without
\* that record.
C31_BadTXTSkipped ==
  WalkedOver({"TXT0", "TXT513"})
    => SameAsWalkOf(Without(lastCall.records, {"TXT0", "TXT513"}))

\* C31: a TXT record with RDLENGTH 0 extracts nothing and does not stop the
\* walk: the walk leaves what it leaves without that record.  A TXT record
\* with RDLENGTH > 512 does not fit the 256-byte buffer: the walk is
\* aborted at it, keeping what the records in front of it gave.
C31_EmptyTXTSkipped ==
  /\ (WalkedOver({"TXT0"}) /\ ~WalkedOver({"TXT513"}))
       => SameAsWalkOf(Without(lastCall.records, {"TXT0"}))
  /\ WalkedOver({"TXT513"})
       => /\ lastCall.aborted /\ ~lastCall.ok
          /\ lastCall.newConfig
               = [WalkOf(Before("TXT513"), lastCall.config).config
                    EXCEPT !.valid = lastCall.config.valid]

\* an empty TXT record, then the SRV and A records of value set 1, walked
\* with an empty descriptor
C31_Witness ==
  /\ CodecDone("parseAnswerRecords")
  /\ lastCall.records = <<"TXT0", "SRV", "A">>
  /\ lastCall.config = EmptyConfig
  /\ ~lastCall.aborted
  /\ CStr(lastCall.newConfig.hostname) = HostName(1)
  /\ lastCall.newConfig.port = Port(1)
  /\ lastCall.newConfig.ipStr = IpText(1)
  /\ lastCall.newConfig.path = <<>>

\* the address fields an A record of 4 bytes gives: the octets, most
\* significant first, and their dotted-decimal text
AddressOf(tag) ==
  IF tag = "A"
  THEN [ipAddress |-> <<192, 168, 1, 21>>, ipStr |-> IpText(1)]
  ELSE [ipAddress |-> <<0, 255, 10, 7>>,
        ipStr |-> <<48, 46, 50, 53, 53, 46, 49, 48, 46, 55>>]

\* the descriptor after A records only: the address of the last record of
\* 4 bytes, everything else as before
RECURSIVE AfterARecords(_, _)
AfterARecords(tags, config) ==
  IF tags = <<>> THEN config
  ELSE AfterARecords(Tail(tags),
                     IF Head(tags) \in {"A", "Aodd"}
                     THEN [config EXCEPT !.ipAddress = AddressOf(Head(tags)).ipAddress,
                                         !.ipStr = AddressOf(Head(tags)).ipStr]
                     ELSE config)

\* C32: an A record updates ipAddress and ipStr only when its RDLENGTH is
\* exactly 4, to the four octets taken big-endian and to their
\* dotted-decimal form; an A record of any other RDLENGTH changes no field.
C32_ARecordExactlyFour ==
  (/\ CodecDone("parseAnswerRecords")
   /\ \A i \in 1..Len(lastCall.records) :
        lastCall.records[i] \in {"A", "Aodd", "A0", "A3", "A5"})
    => lastCall.newConfig = AfterARecords(lastCall.records, lastCall.config)

\* the A record for 0.255.10.7 and an A record of 5 bytes, walked with the
\* descriptor of value set 2
C32_Witness ==
  /\ CodecDone("parseAnswerRecords")
  /\ lastCall.records = <<"Aodd", "A5">>
  /\ lastCall.config = Discovered
  /\ lastCall.newConfig.ipAddress = <<0, 255, 10, 7>>
  /\ lastCall.newConfig.ipStr = <<48, 46, 50, 53, 53, 46, 49, 48, 46, 55>>
  /\ lastCall.newConfig.hostname = HostName(2)

\* The descriptor fields the records tags give when each record is taken at
\* the place it has in the response: pos is the offset of the first of them,
\* the rdata of a record starts after its owner name and the 10 bytes of
\* its header, the next record RDLENGTH bytes later; a record that is not
\* an SRV, TXT or A record gives nothing.
RECURSIVE RecordsAt(_, _, _, _, _)
RecordsAt(packet, packetSize, tags, pos, config) ==
  IF tags = <<>> THEN config
  ELSE LET r == WalkRecord(Head(tags))
           data == pos + Len(r.name) + 10
       IN RecordsAt(packet, packetSize, Tail(tags), data + r.rdlength,
                    IF r.type \in {33, 16, 1}
                    THEN ParseRecord(packet, packetSize, r.type, data, r.rdlength,
                                     config).config
                    ELSE config)

\* the walk of lastCall has run over records that all lie inside the packet
WalkedInside ==
  /\ CodecDone("parseAnswerRecords")
  /\ \A i \in 1..Len(lastCall.records) : lastCall.records[i] # "TXT513"

\* the walk of lastCall took every record at its place
EveryRecordAtItsPlace ==
  /\ ~lastCall.aborted
  /\ [lastCall.newConfig EXCEPT !.valid = FALSE]
       = [RecordsAt(lastCall.packet, lastCall.packetSize, lastCall.records,
                    lastCall.questionPos, lastCall.config) EXCEPT !.valid = FALSE]

\* C33: a record that is not an SRV, TXT or A record changes no descriptor
\* field, and after every record the cursor is at the offset of its rdata
\* plus its RDLENGTH, so the records that follow are extracted from their
\* own bytes.
C33_CursorAfterRecord ==
  WalkedInside => EveryRecordAtItsPlace

----------------------------------------------------------------------------
(* The loops of the receive path, one iteration per step *)

\* decodeDNSName's while loop with pointers followed but not counted
DecodeStep_JumpsNotCounted(c) ==
  IF ~(c.pos < c.packetSize /\ c.namePos < c.nameMaxLen - 1) THEN
    [c EXCEPT !.done = TRUE, !.ok = TRUE,
              !.nextOffset = IF c.jumped THEN @ ELSE c.pos]
  ELSE
    LET len == At(c.packet, c.pos)
        pos1 == c.pos + 1
    IN IF len = 0 THEN
         [c EXCEPT !.pos = pos1, !.done = TRUE, !.ok = TRUE,
                   !.nextOffset = IF c.jumped THEN @ ELSE pos1]
       ELSE IF len >= 192 THEN
         IF pos1 >= c.packetSize THEN [c EXCEPT !.pos = pos1, !.done = TRUE]
         ELSE
           LET pointer == (len % 64) * 256 + At(c.packet, pos1)
               next1 == IF c.jumped THEN c.nextOffset ELSE pos1 + 1
           IN IF c.jumps >= MAX_JUMPS \/ pointer >= c.packetSize THEN
                [c EXCEPT !.pos = pos1 + 1, !.nextOffset = next1, !.jumped = TRUE,
                          !.done = TRUE]
              ELSE [c EXCEPT !.pos = pointer, !.nextOffset = next1,
                             !.jumped = TRUE]
       ELSE IF len > 63 THEN [c EXCEPT !.pos = pos1, !.done = TRUE]
       ELSE
         LET namePos1 == IF c.namePos > 0 /\ c.namePos < c.nameMaxLen - 1
                         THEN c.namePos + 1 ELSE c.namePos
         IN IF pos1 + len > c.packetSize THEN
              [c EXCEPT !.pos = pos1, !.namePos = namePos1, !.done = TRUE]
            ELSE
              LET n == Min(len, (c.nameMaxLen - 1) - namePos1)
              IN [c EXCEPT !.pos = pos1 + n, !.namePos = namePos1 + n]

\* One evaluation of the loop condition of decodeDNSName and, where it
\* holds, one pass through the loop body, on the locals pos, namePos, jumps
\* and jumped.  done: the function has returned; ok: what it returned;
\* nextOffset: the reference parameter.
DecodeStep(c) ==
  IF ~(c.pos < c.packetSize /\ c.namePos < c.nameMaxLen - 1) THEN
    [c EXCEPT !.done = TRUE, !.ok = TRUE,
              !.nextOffset = IF c.jumped THEN @ ELSE c.pos]
  ELSE
    LET len == At(c.packet, c.pos)
        pos1 == c.pos + 1
    IN IF len = 0 THEN
         [c EXCEPT !.pos = pos1, !.done = TRUE, !.ok = TRUE,
                   !.nextOffset = IF c.jumped THEN @ ELSE pos1]
       ELSE IF len >= 192 THEN
         IF pos1 >= c.packetSize THEN [c EXCEPT !.pos = pos1, !.done = TRUE]
         ELSE
           LET pointer == (len % 64) * 256 + At(c.packet, pos1)
               next1 == IF c.jumped THEN c.nextOffset ELSE pos1 + 1
           IN IF c.jumps >= MAX_JUMPS \/ pointer >= c.packetSize THEN
                [c EXCEPT !.pos = pos1 + 1, !.nextOffset = next1, !.jumped = TRUE, !.jumps = @ + 1,
                          !.done = TRUE]
              ELSE [c EXCEPT !.pos = pointer, !.nextOffset = next1,
                             !.jumped = TRUE, !.jumps = @ + 1]
       ELSE IF len > 63 THEN [c EXCEPT !.pos = pos1, !.done = TRUE]
       ELSE
         LET namePos1 == IF c.namePos > 0 /\ c.namePos < c.nameMaxLen - 1
                         THEN c.namePos + 1 ELSE c.namePos
         IN IF pos1 + len > c.packetSize THEN
              [c EXCEPT !.pos = pos1, !.namePos = namePos1, !.done = TRUE]
            ELSE
              LET n == Min(len, (c.nameMaxLen - 1) - namePos1)
              IN [c EXCEPT !.pos = pos1 + n, !.namePos = namePos1 + n]

\* decodeDNSName up to its loop: the test of offset and the locals
DecodeEntry(packet, packetSize, offset, nameMaxLen) ==
  [packet |-> packet, packetSize |-> packetSize, nameMaxLen |-> nameMaxLen,
   pos |-> offset, namePos |-> 0, jumps |-> 0, jumped |-> FALSE,
   nextOffset |-> Unset, ok |-> FALSE, done |-> offset >= packetSize]

\* One evaluation of the condition of the question skip loop of
\* handleMDNSResponse and, where it holds, one pass through its body
QuestionStep(c) ==
  IF ~(c.questionPos < c.bytesRead) THEN [c EXCEPT !.done = TRUE]
  ELSE
    LET len == At(c.packet, c.questionPos)
    IN IF len = 0 THEN [c EXCEPT !.questionPos = @ + 1, !.done = TRUE]
       ELSE IF len >= 192 THEN [c EXCEPT !.questionPos = @ + 2, !.done = TRUE]
       ELSE [c EXCEPT !.questionPos = @ + 1 + len]

\* the walk before it looks at a record: no owner name is being decoded
NoName == DecodeEntry(<<>>, 0, 0, CONFIG_HOSTNAME_MAX_LEN)

\* The while loop of parseAnswerRecords, a step at a time.  pc "while": the
\* loop condition and the call of decodeDNSName for the owner name; pc
\* "name": one step of that call, or its return; pc "record": the rest of
\* the loop body.
AnswerStep(c) ==
  IF c.pc = "while" THEN
    IF ~(c.recordsProcessed < c.ancount /\ c.pos < c.packetSize) THEN
      [c EXCEPT !.done = TRUE]
    ELSE [c EXCEPT !.pc = "name",
                   !.name = DecodeEntry(c.packet, c.packetSize, c.pos,
                                        CONFIG_HOSTNAME_MAX_LEN)]
  ELSE IF c.pc = "name" THEN
    IF ~c.name.done THEN [c EXCEPT !.name = DecodeStep(@)]
    ELSE IF ~c.name.ok THEN [c EXCEPT !.done = TRUE]
    ELSE [c EXCEPT !.pc = "record", !.pos = c.name.nextOffset, !.name = NoName]
  ELSE
    IF c.pos + 10 > c.packetSize THEN [c EXCEPT !.done = TRUE]
    ELSE
      LET recordType == At(c.packet, c.pos) * 256 + At(c.packet, c.pos + 1)
          dataLength == At(c.packet, c.pos + 8) * 256 + At(c.packet, c.pos + 9)
          data == c.pos + 10
      IN IF data + dataLength > c.packetSize THEN
           [c EXCEPT !.pos = data, !.done = TRUE]
         ELSE
           [c EXCEPT !.pc = "while", !.pos = data + dataLength,
                     !.recordsProcessed = @ + 1,
                     !.config = ParseRecord(c.packet, c.packetSize, recordType,
                                            data, dataLength, c.config).config]

\* a packet whose last two bytes point at the first of the two
SelfPointing(n) == [i \in 1..n |-> 97] \o <<192, n>>

\* n pointers, each to the next and the last to the first
PointerCycle(n) ==
  [i \in 1..(2 * n) |-> IF i % 2 = 1 THEN 192 ELSE IF i = 2 * n THEN 0 ELSE i]

\* a question name of one label whose length byte is len, cut after n bytes
OddQuestion(len, n) ==
  Take(<<0, 0>> \o U16(33792) \o U16(1) \o U16(1) \o <<0, 0, 0, 0>>
         \o <<len>> \o [i \in 1..200 |-> 97], n)

\* the records of the walks that are taken a step at a time
StepTags == {"SRV", "TXT", "A", "TXT513", "SRV4", "PTR", "PTRlong"}

\* The loops as they are entered: decodeDNSName on the packets of
\* DecodeCalls that are shorter or longer than MaxPacketLen, on packets
\* that point at themselves and on cycles of pointers, the question skip
\* on the datagrams of the generator and on question names with single odd
\* labels, the answer walk on the responses of fewer than MaxRecords
\* records with the count of their records and with the largest count
StepCalls ==
  {[op |-> "decodeLoop"] @@ DecodeEntry(c.packet, c.packetSize, c.offset, c.nameMaxLen)
     : c \in {d \in DecodeCalls : d.packetSize # MaxPacketLen}
               \cup {DecodeCall(SelfPointing(n), n, 128) : n \in 0..MaxPacketLen}
               \cup {DecodeCall(PointerCycle(n), 0, 128) : n \in 1..MaxPacketLen}}
    \cup {[op |-> "questionSkip", packet |-> c.packet, bytesRead |-> c.bytesRead,
           questionPos |-> 12, done |-> FALSE]
            : c \in {[packet |-> After(d), bytesRead |-> Len(d)] : d \in Datagrams}
                      \cup {[packet |-> After(OddQuestion(len, n)), bytesRead |-> n]
                              : len \in {1, 63, 64, 191, 192, 255},
                                n \in {13, 14, 77, 204, 205}}}
    \cup {[op |-> "answerWalk", packet |-> Overlay(Zeros(PACKET_BUFFER_SIZE), Response(tags)),
           packetSize |-> Len(Response(tags)), pos |-> AnswerStart,
           recordsProcessed |-> 0, ancount |-> IF most THEN 65535 ELSE Len(tags),
           config |-> EmptyConfig,
           pc |-> "while", name |-> NoName, done |-> FALSE]
            : tags \in {x \in Strings(StepTags, MaxRecords - 1)
                          : x # <<>> /\ Len(Response(x)) <= PACKET_BUFFER_SIZE},
              most \in BOOLEAN}

StepInit ==
  /\ packetBuffer = Zeros(PACKET_BUFFER_SIZE)
  /\ queryTransactionID = InitialTransactionID
  /\ lastRequestedService = ServiceNameText
  /\ discoveredConfig = EmptyConfig
  /\ configURL = <<>>
  /\ udpOut = <<>>
  /\ lastCall \in StepCalls
  /\ mqtt = MqttStatics
  /\ rtc = RtcStatics
  /\ uptime = 0
  /\ main = MainStatics

decodeDNSNameStep ==
  /\ Pending("decodeLoop")
  /\ \E r \in {DecodeStep(lastCall)} : lastCall' = r
  /\ ParseFrame

questionSkipStep ==
  /\ Pending("questionSkip")
  /\ \E r \in {QuestionStep(lastCall)} : lastCall' = r
  /\ ParseFrame

parseAnswerRecordsStep ==
  /\ Pending("answerWalk")
  /\ \E r \in {AnswerStep(lastCall)} : lastCall' = r
  /\ ParseFrame

StepNext ==
  \/ decodeDNSNameStep
  \/ questionSkipStep
  \/ parseAnswerRecordsStep

\* The processor keeps executing the loop it is in: a step that is possible
\* is taken
StepSpec == StepInit /\ [][StepNext]_vars /\ WF_vars(StepNext)

\* C34: decodeDNSName terminates on every packet, also when its compression
\* pointers form a cycle or point at themselves, and the question skip and
\* the answer walk of handleMDNSResponse terminate on every datagram.
C34_LoopsTerminate ==
  <>(lastCall.done)

\* decodeDNSName has returned false on a packet that is one pointer to
\* itself, after following it MAX_JUMPS times
C34_Witness ==
  /\ CodecDone("decodeLoop")
  /\ lastCall.packet = <<192, 0>>
  /\ ~lastCall.ok
  /\ lastCall.jumps = MAX_JUMPS + 1

----------------------------------------------------------------------------
(* mqtt_publish.cpp: the publisher *)

\* a null pointer argument
Null == <<-1>>

MQTT_TLS_PORT == 8883
MQTT_PLAIN_PORT == 1883

\* the configurations main.cpp can hand to initMQTT: none (a null pointer,
\* modelled by a null broker), one without a broker name, brokers on either
\* port with and without a default topic
MqttConfigs ==
  {[mqtt_broker |-> b, mqtt_port |-> p, mqtt_topic |-> t]
     : b \in {Null, <<>>, <<98>>}, p \in {MQTT_PLAIN_PORT, MQTT_TLS_PORT},
       t \in {<<>>, <<116>>}}

MqttFrame ==
  UNCHANGED <<packetBuffer, queryTransactionID, lastRequestedService,
              discoveredConfig, configURL, udpOut, rtc, uptime, main>>

initMQTT(config) ==
  /\ IF config.mqtt_broker = Null \/ config.mqtt_broker = <<>> THEN
       /\ mqtt' = [mqtt EXCEPT !.mqtt_status = "MQTT_ERROR"]
       /\ lastCall' = [op |-> "initMQTT", result |-> "MQTT_ERROR"]
     ELSE
       /\ mqtt' = [mqtt EXCEPT !.mqtt_config_copy = config,
                               !.mqtt_status = "MQTT_CONNECTING",
                               !.mqtt_initialized = TRUE]
       /\ lastCall' = [op |-> "initMQTT", result |-> "MQTT_CONNECTING"]
  /\ MqttFrame

\* the connection state after the connect attempts of maintainMQTT;
\* first, fallback: what mqttClient.connect() answers on the configured port
\* and on port 1883
Connect(first, fallback) ==
  IF mqtt.connected THEN TRUE
  ELSE IF first THEN TRUE
  ELSE IF mqtt.mqtt_config_copy.mqtt_port = MQTT_TLS_PORT THEN fallback
  ELSE FALSE

\* maintainMQTT returning early when the status is MQTT_ERROR
maintainMQTT_KeepsError(first, fallback) ==
  /\ IF ~mqtt.mqtt_initialized THEN
       /\ lastCall' = [op |-> "maintainMQTT", result |-> "MQTT_DISCONNECTED"]
       /\ UNCHANGED mqtt
     ELSE IF mqtt.mqtt_status \in {"MQTT_CONNECTING", "MQTT_DISCONNECTED"} THEN
       \E up \in {Connect(first, fallback)} :
         /\ mqtt' = [mqtt EXCEPT !.connected = up,
                                 !.mqtt_status = IF up THEN "MQTT_CONNECTED"
                                                 ELSE "MQTT_DISCONNECTED"]
         /\ lastCall' = [op |-> "maintainMQTT", result |-> mqtt'.mqtt_status]
     ELSE IF mqtt.mqtt_status = "MQTT_ERROR" THEN
       /\ lastCall' = [op |-> "maintainMQTT", result |-> "MQTT_ERROR"]
       /\ UNCHANGED mqtt
     ELSE
       /\ mqtt' = [mqtt EXCEPT !.mqtt_status = IF mqtt.connected THEN "MQTT_CONNECTED"
                                               ELSE "MQTT_DISCONNECTED"]
       /\ lastCall' = [op |-> "maintainMQTT", result |-> mqtt'.mqtt_status]
  /\ MqttFrame

maintainMQTT(first, fallback) ==
  /\ IF ~mqtt.mqtt_initialized THEN
       /\ lastCall' = [op |-> "maintainMQTT", result |-> "MQTT_DISCONNECTED"]
       /\ UNCHANGED mqtt
     ELSE IF mqtt.mqtt_status \in {"MQTT_CONNECTING", "MQTT_DISCONNECTED"} THEN
       \E up \in {Connect(first, fallback)} :
         /\ mqtt' = [mqtt EXCEPT !.connected = up,
                                 !.mqtt_status = IF up THEN "MQTT_CONNECTED"
                                                 ELSE "MQTT_DISCONNECTED"]
         /\ lastCall' = [op |-> "maintainMQTT", result |-> mqtt'.mqtt_status]
     ELSE
       /\ mqtt' = [mqtt EXCEPT !.mqtt_status = IF mqtt.connected THEN "MQTT_CONNECTED"
                                               ELSE "MQTT_DISCONNECTED"]
       /\ lastCall' = [op |-> "maintainMQTT", result |-> mqtt'.mqtt_status]
  /\ MqttFrame

isMQTTReady ==
  mqtt.mqtt_initialized /\ mqtt.mqtt_status = "MQTT_CONNECTED" /\ mqtt.connected

\* begun, ended: what mqttClient.beginMessage() and mqttClient.endMessage()
\* answer; sent: the message went through both
publishToMQTT(topic, message, begun, ended) ==
  /\ IF message = Null THEN
       /\ lastCall' = [op |-> "publishToMQTT", result |-> "MQTT_ERROR", sent |-> FALSE]
       /\ UNCHANGED mqtt
     ELSE IF ~isMQTTReady THEN
       /\ lastCall' = [op |-> "publishToMQTT", result |-> mqtt.mqtt_status,
                       sent |-> FALSE]
       /\ UNCHANGED mqtt
     ELSE IF (IF topic # Null THEN topic ELSE mqtt.mqtt_config_copy.mqtt_topic) = <<>> THEN
       /\ lastCall' = [op |-> "publishToMQTT", result |-> "MQTT_ERROR", sent |-> FALSE]
       /\ UNCHANGED mqtt
     ELSE IF ~(begun /\ ended) THEN
       /\ lastCall' = [op |-> "publishToMQTT", result |-> "MQTT_ERROR", sent |-> FALSE]
       /\ mqtt' = [mqtt EXCEPT !.mqtt_status = "MQTT_ERROR"]
     ELSE
       /\ lastCall' = [op |-> "publishToMQTT", result |-> "MQTT_CONNECTED",
                       sent |-> TRUE, message |-> message,
                       topic |-> IF topic # Null THEN topic
                                 ELSE mqtt.mqtt_config_copy.mqtt_topic]
       /\ UNCHANGED mqtt
  /\ MqttFrame

disconnectMQTT ==
  /\ mqtt' = [mqtt EXCEPT !.connected = FALSE, !.mqtt_status = "MQTT_DISCONNECTED"]
  /\ lastCall' = [op |-> "disconnectMQTT", result |-> "MQTT_DISCONNECTED"]
  /\ MqttFrame

\* the broker or the network drops the connection
connectionLost ==
  /\ mqtt.connected
  /\ mqtt' = [mqtt EXCEPT !.connected = FALSE]
  /\ UNCHANGED lastCall
  /\ MqttFrame

MqttNext ==
  \/ \E config \in MqttConfigs : initMQTT(config)
  \/ \E first \in BOOLEAN, fallback \in BOOLEAN : maintainMQTT(first, fallback)
  \/ \E topic \in {Null, <<>>, <<116>>, <<117>>}, message \in {Null, <<>>, <<109>>},
        begun \in BOOLEAN, ended \in BOOLEAN :
       publishToMQTT(topic, message, begun, ended)
  \/ disconnectMQTT
  \/ connectionLost

MqttSpec == Init /\ [][MqttNext]_vars

\* C21: publishToMQTT returns MQTT_CONNECTED only when the message went
\* through beginMessage and endMessage; whenever nothing is sent the return
\* value differs from MQTT_CONNECTED.
C21_ConnectedMeansSent ==
  lastCall.op = "publishToMQTT"
    => (lastCall.result = "MQTT_CONNECTED" <=> lastCall.sent)

\* the step is a maintainMQTT call (a call never ends a connection, which
\* tells it from a connection lost after it)
MaintainNow ==
  lastCall'.op = "maintainMQTT" /\ ~(mqtt.connected /\ ~mqtt'.connected)

\* C40: after every maintainMQTT call made once the module is initialised
\* the status is MQTT_CONNECTED when the client is connected and
\* MQTT_DISCONNECTED when it is not, and that is what the call returns; a
\* call that finds MQTT_ERROR clears it without a connection attempt, which
\* is left to a following call.
C40_MaintainSettlesStatus ==
  [][(MaintainNow /\ mqtt.mqtt_initialized)
       => /\ mqtt'.mqtt_status = IF mqtt'.connected THEN "MQTT_CONNECTED"
                                 ELSE "MQTT_DISCONNECTED"
          /\ lastCall'.result = mqtt'.mqtt_status
          /\ mqtt.mqtt_status = "MQTT_ERROR" => mqtt'.connected = mqtt.connected]_vars

\* a maintainMQTT call of the initialised module that left the client
\* disconnected
C40_Witness ==
  /\ lastCall.op = "maintainMQTT"
  /\ lastCall.result = "MQTT_DISCONNECTED"
  /\ mqtt.mqtt_initialized /\ ~mqtt.connected
  /\ mqtt.mqtt_status = "MQTT_DISCONNECTED"

----------------------------------------------------------------------------
(* rtc.cpp: the clock *)

CONFIG_RTC_SYNC_INTERVAL_MS == 60000
CONFIG_RTC_BOOTSTRAP_TIMESTAMP == 1739404800
CONFIG_RTC_STALE_THRESHOLD_MS == 300000

\* Time is counted in ticks of 32 ms, the largest power of two that divides
\* both thresholds, so that the 32-bit millis() counter wraps after a whole
\* number of ticks.  uptime is the time since power-up, which does not wrap.
TickMs == 2^5
MillisWrap == 2^27
SyncIntervalTicks == CONFIG_RTC_SYNC_INTERVAL_MS \div TickMs
StaleTicks == CONFIG_RTC_STALE_THRESHOLD_MS \div TickMs

\* millis(), in ticks
Millis == uptime % MillisWrap

\* now - t in uint32_t arithmetic, in ticks
Since(t) == (Millis + MillisWrap - t) % MillisWrap

\* whole seconds in a number of ticks
Seconds(ticks) == (ticks * 4) \div 125

\* rtc.getEpoch(): the hardware counts seconds from the value it was set to
getEpoch == rtc.epoch + Seconds(uptime - rtc.setAt)

\* what WiFi.getTime() answers once the module has network time: power-up
\* happened 266 days after the bootstrap date
NetworkTime == CONFIG_RTC_BOOTSTRAP_TIMESTAMP + 266 * 86400 + Seconds(uptime)

\* distance of the observed instants from the thresholds
Jitter == 1

\* the instants the clock functions are called at: around each threshold
\* after power-up, after the first possible sync, and after millis() has
\* wrapped
TimePoints ==
  {b + o : b \in {0, SyncIntervalTicks, MillisWrap + SyncIntervalTicks},
           o \in {0, Jitter, SyncIntervalTicks - Jitter, SyncIntervalTicks,
                  StaleTicks, StaleTicks + Jitter}}

RtcFrame ==
  UNCHANGED <<packetBuffer, queryTransactionID, lastRequestedService,
              discoveredConfig, configURL, udpOut, mqtt, main>>

\* setup() calls initRTC once
initRTC ==
  /\ rtc.rtc_status = "RTC_UNINITIALIZED"
  /\ rtc' = [rtc EXCEPT !.epoch = CONFIG_RTC_BOOTSTRAP_TIMESTAMP,
                        !.setAt = uptime,
                        !.rtc_status = "RTC_INITIALIZED",
                        !.last_sync_timestamp = CONFIG_RTC_BOOTSTRAP_TIMESTAMP]
  /\ lastCall' = [op |-> "initRTC", at |-> uptime, was |-> rtc.rtc_status,
                  result |-> TRUE]
  /\ UNCHANGED uptime
  /\ RtcFrame

\* wifiUp: WiFi.status() is WL_CONNECTED; wifi_time: what WiFi.getTime()
\* answers; attempted: the call got as far as WiFi.getTime()
syncRTCWithNetwork(wifiUp, wifi_time) ==
  /\ IF Since(rtc.last_sync_time) < SyncIntervalTicks THEN
       /\ lastCall' = [op |-> "syncRTCWithNetwork", at |-> uptime,
                       was |-> rtc.rtc_status, result |-> FALSE,
                       attempted |-> FALSE]
       /\ UNCHANGED rtc
     ELSE IF ~wifiUp THEN
       /\ lastCall' = [op |-> "syncRTCWithNetwork", at |-> uptime,
                       was |-> rtc.rtc_status, result |-> FALSE,
                       attempted |-> FALSE]
       /\ UNCHANGED rtc
     ELSE IF wifi_time = 0 THEN
       /\ lastCall' = [op |-> "syncRTCWithNetwork", at |-> uptime,
                       was |-> rtc.rtc_status, result |-> FALSE,
                       attempted |-> TRUE]
       /\ rtc' = [rtc EXCEPT !.attemptedAt = uptime]
     ELSE
       /\ lastCall' = [op |-> "syncRTCWithNetwork", at |-> uptime,
                       was |-> rtc.rtc_status, result |-> TRUE,
                       attempted |-> TRUE]
       /\ rtc' = [rtc EXCEPT !.epoch = wifi_time,
                             !.setAt = uptime,
                             !.last_sync_time = Millis,
                             !.last_sync_timestamp = wifi_time,
                             !.rtc_status = "RTC_SYNCED",
                             !.attemptedAt = uptime,
                             !.syncedAt = uptime]
  /\ UNCHANGED uptime
  /\ RtcFrame

\* the status after the staleness check both getters make
Aged ==
  IF rtc.rtc_status = "RTC_SYNCED" /\ Since(rtc.last_sync_time) > StaleTicks
  THEN "RTC_SYNC_STALE"
  ELSE rtc.rtc_status

getRTCTimestamp ==
  /\ IF rtc.rtc_status = "RTC_UNINITIALIZED" THEN
       /\ lastCall' = [op |-> "getRTCTimestamp", at |-> uptime,
                       was |-> rtc.rtc_status, result |-> Seconds(Millis),
                       status |-> rtc.rtc_status]
       /\ UNCHANGED rtc
     ELSE
       /\ rtc' = [rtc EXCEPT !.rtc_status = Aged]
       /\ lastCall' = [op |-> "getRTCTimestamp", at |-> uptime,
                       was |-> rtc.rtc_status, result |-> getEpoch,
                       status |-> Aged]
  /\ UNCHANGED uptime
  /\ RtcFrame

getRTCStatus ==
  /\ rtc' = [rtc EXCEPT !.rtc_status = Aged]
  /\ lastCall' = [op |-> "getRTCStatus", at |-> uptime, was |-> rtc.rtc_status,
                  result |-> Aged, status |-> Aged]
  /\ UNCHANGED uptime
  /\ RtcFrame

\* time passes until the instant t
passTime(t) ==
  /\ t > uptime
  /\ uptime' = t
  /\ UNCHANGED <<rtc, lastCall>>
  /\ RtcFrame

RtcNext ==
  \/ initRTC
  \/ \E wifiUp \in BOOLEAN, wifi_time \in {0, NetworkTime} :
       syncRTCWithNetwork(wifiUp, wifi_time)
  \/ getRTCTimestamp
  \/ getRTCStatus
  \/ \E t \in TimePoints : passTime(t)

RtcSpec == Init /\ [][RtcNext]_vars

\* C22: when the status has been RTC_INITIALIZED for more than 5 minutes
\* without a successful sync, a getRTCStatus or getRTCTimestamp call moves
\* it to RTC_SYNC_STALE.
C22_InitializedGoesStale ==
  (/\ lastCall.op \in {"getRTCStatus", "getRTCTimestamp"}
   /\ lastCall.was = "RTC_INITIALIZED"
   /\ lastCall.at - rtc.setAt > StaleTicks)
    => lastCall.status = "RTC_SYNC_STALE"

\* the step is a syncRTCWithNetwork call that queried the network time
AttemptNow ==
  /\ lastCall'.op = "syncRTCWithNetwork"
  /\ lastCall'.attempted
  /\ rtc'.attemptedAt = uptime
  /\ <<rtc', lastCall'>> # <<rtc, lastCall>>

\* C23: syncRTCWithNetwork queries the network time at most once in any
\* 60-second interval, whether the attempts succeed or fail: a call that
\* queries comes at least 60 seconds after the previous query.
C23_AttemptsRateLimited ==
  [][(AttemptNow /\ rtc.attemptedAt # -1)
       => uptime - rtc.attemptedAt >= SyncIntervalTicks]_vars

\* C24: getRTCStatus never returns RTC_SYNCED when more than
\* CONFIG_RTC_STALE_THRESHOLD_MS have elapsed since the last successful
\* sync.
C24_SyncedIsFresh ==
  (lastCall.op = "getRTCStatus" /\ lastCall.result = "RTC_SYNCED")
    => lastCall.at - rtc.syncedAt <= StaleTicks

\* C25: getRTCTimestamp returns millis()/1000 while the status is
\* RTC_UNINITIALIZED or RTC_INITIALIZED, and the RTC epoch once a sync has
\* succeeded.
C25_TimestampSource ==
  lastCall.op = "getRTCTimestamp"
    => IF lastCall.was \in {"RTC_UNINITIALIZED", "RTC_INITIALIZED"}
       THEN lastCall.result = Seconds(lastCall.at % MillisWrap)
       ELSE lastCall.result = rtc.epoch + Seconds(lastCall.at - rtc.setAt)

----------------------------------------------------------------------------
(* main.cpp: setup and loop *)

CONFIG_QUERY_INTERVAL_MS == 10000
CONFIG_FETCH_RETRY_INTERVAL == 30000
PUBLISH_INTERVAL == 10000

\* the statics of mdns.cpp and the packet buffer, as one value
MdnsStatics ==
  [packetBuffer |-> Zeros(PACKET_BUFFER_SIZE), lastRequestedService |-> <<>>,
   discoveredConfig |-> EmptyConfig, configURL |-> <<>>, udpOut |-> <<>>]

\* sendMDNSQuery as a function of that value; txid: queryTransactionID, sent:
\* whether udp.endPacket() reports success
Sent(s, txid, sent) ==
  IF ~buildServiceName(CONFIG_SERVICE_NAME_MAX_LEN).ok THEN s
  ELSE
    Let(buildMDNSQuery(s.packetBuffer, PACKET_BUFFER_SIZE,
                       buildServiceName(CONFIG_SERVICE_NAME_MAX_LEN).buffer, txid),
        LAMBDA q :
          IF q.len = 0 THEN [s EXCEPT !.packetBuffer = q.packet]
          ELSE [s EXCEPT !.packetBuffer = q.packet,
                         !.udpOut = IF sent THEN SubSeq(q.packet, 1, q.len) ELSE @,
                         !.lastRequestedService =
                            IF sent
                            THEN Take(buildServiceName(CONFIG_SERVICE_NAME_MAX_LEN).buffer,
                                      CONFIG_SERVICE_NAME_MAX_LEN - 1)
                            ELSE @])

\* handleMDNSResponse as a function of that value; d: the datagram
\* udp.parsePacket() announced
Handled(s, d) ==
  IF Len(d) < 12 THEN s
  ELSE
    Let(Overlay(s.packetBuffer, Take(d, PACKET_BUFFER_SIZE)), LAMBDA packet :
      Let(HandleRead(packet, Min(Len(d), PACKET_BUFFER_SIZE), s.lastRequestedService,
                     s.discoveredConfig, s.configURL),
          LAMBDA r : [s EXCEPT !.packetBuffer = packet,
                               !.discoveredConfig = r.config,
                               !.configURL = r.url]))

\* the datagrams that arrive while the loop runs: a complete response and
\* a response without an A record
LoopDatagrams ==
  {Dgram(1, "none"), Dgram(1, "noA")}

\* the values the statics of mdns.cpp take under sendMDNSQuery and
\* handleMDNSResponse on these datagrams
RECURSIVE Closure(_)
Closure(S) ==
  Let(S \cup {Sent(s, InitialTransactionID, sent) : s \in S, sent \in BOOLEAN}
        \cup {Handled(s, d) : s \in S, d \in LoopDatagrams},
      LAMBDA T : IF T = S THEN S ELSE Closure(T))

MdnsStates == Closure({MdnsStatics})

\* the two functions, tabulated over these values
SentTable ==
  [s \in MdnsStates, sent \in BOOLEAN |-> Sent(s, InitialTransactionID, sent)]

HandledTable ==
  [s \in MdnsStates, d \in LoopDatagrams |-> Handled(s, d)]

\* initMQTT, maintainMQTT, isMQTTReady and publishToMQTT(nullptr, payload)
\* as functions of the statics m of mqtt_publish.cpp
AfterInitMQTT(m, config) ==
  IF config.mqtt_broker = Null \/ config.mqtt_broker = <<>>
  THEN [m EXCEPT !.mqtt_status = "MQTT_ERROR"]
  ELSE [m EXCEPT !.mqtt_config_copy = config, !.mqtt_status = "MQTT_CONNECTING",
                 !.mqtt_initialized = TRUE]

AfterMaintainMQTT(m, first, fallback) ==
  IF ~m.mqtt_initialized THEN m
  ELSE IF m.mqtt_status \in {"MQTT_CONNECTING", "MQTT_DISCONNECTED"} THEN
    LET up == \/ m.connected
              \/ first
              \/ (m.mqtt_config_copy.mqtt_port = MQTT_TLS_PORT /\ fallback)
    IN [m EXCEPT !.connected = up,
                 !.mqtt_status = IF up THEN "MQTT_CONNECTED" ELSE "MQTT_DISCONNECTED"]
  ELSE [m EXCEPT !.mqtt_status = IF m.connected THEN "MQTT_CONNECTED"
                                 ELSE "MQTT_DISCONNECTED"]

ReadyIn(m) ==
  m.mqtt_initialized /\ m.mqtt_status = "MQTT_CONNECTED" /\ m.connected

AfterPublish(m, begun, ended) ==
  IF ~ReadyIn(m) THEN m
  ELSE IF m.mqtt_config_copy.mqtt_topic = <<>> THEN m
  ELSE IF ~(begun /\ ended) THEN [m EXCEPT !.mqtt_status = "MQTT_ERROR"]
  ELSE m

\* the intervals in ticks, rounded up: t ticks are at least i ms exactly
\* when t is at least i ms in ticks, rounded up
QueryTicks == (CONFIG_QUERY_INTERVAL_MS + TickMs - 1) \div TickMs
FetchTicks == (CONFIG_FETCH_RETRY_INTERVAL + TickMs - 1) \div TickMs
PublishTicks == (PUBLISH_INTERVAL + TickMs - 1) \div TickMs

\* now - last >= interval in uint32_t arithmetic
QueryDue(last) == Since(last) >= QueryTicks
PublishDue(last) == Since(last) >= PublishTicks

\* the fetch gate opening at the query interval
FetchDue_QueryInterval(last) == Since(last) >= QueryTicks

FetchDue(last) == Since(last) >= FetchTicks

\* The instants loop() runs at, as readings of millis(): around the two
\* intervals after power-up, and before the counter wraps.  In this
\* specification uptime is kept modulo the period of millis().
LoopInstants ==
  {0, QueryTicks - Jitter, QueryTicks, FetchTicks - Jitter, FetchTicks,
   FetchTicks + QueryTicks, 2 * FetchTicks, MillisWrap - FetchTicks,
   MillisWrap - Jitter}

\* the instant that follows t
NextInstant(t) ==
  IF \E u \in LoopInstants : u > t
  THEN CHOOSE u \in LoopInstants : u > t /\ \A w \in LoopInstants : w > t => u <= w
  ELSE CHOOSE u \in LoopInstants : \A w \in LoopInstants : u <= w

\* what fetchConfigFromServer and parseConfigJSON yield: no HTTP 200, or a
\* body that gives no configuration, or one that gives a broker
FetchOutcomes ==
  {[success |-> FALSE, config |-> MainStatics.mqtt_config]}
    \cup {[success |-> TRUE, config |-> c]
            : c \in {MainStatics.mqtt_config}
                      \cup {x \in MqttConfigs : x.mqtt_broker \notin {Null, <<>>}}}

\* setup() once WiFi, the device id and the socket are there: the first
\* query
setup(sent) ==
  /\ lastCall.op = "none"
  /\ \E s \in {SentTable[MdnsStatics, sent]} :
       /\ packetBuffer' = s.packetBuffer
       /\ lastRequestedService' = s.lastRequestedService
       /\ udpOut' = s.udpOut
  /\ lastCall' = [op |-> "setup", ok |-> sent]
  /\ UNCHANGED <<queryTransactionID, discoveredConfig, configURL, mqtt, rtc,
                 uptime, main>>

\* loop() with config_fetched set: the connection is maintained and the
\* payload published when the interval has passed
Publishing(first, fallback, begun, ended) ==
  \E m \in {AfterMaintainMQTT(mqtt, first, fallback)} :
    \E publish \in {ReadyIn(m) /\ PublishDue(main.last_publish_time)} :
      /\ mqtt' = IF publish THEN AfterPublish(m, begun, ended) ELSE m
      /\ main' = [main EXCEPT !.last_publish_time = IF publish THEN Millis ELSE @]
      /\ lastCall' = [op |-> "loop", queried |-> FALSE, handled |-> FALSE,
                      attempted |-> FALSE, host |-> <<>>, port |-> 0,
                      published |-> publish]
      /\ UNCHANGED <<packetBuffer, lastRequestedService, discoveredConfig,
                     configURL, udpOut>>

\* loop() with config_fetched clear: the periodic query, the datagram d if
\* one is waiting (<<>>: none), and the fetch when its interval has passed
\* and a server is known
Discovering(d, sent, fetch) ==
  \E queried \in {QueryDue(main.lastQueryTime)},
     due \in {FetchDue(main.last_config_fetch_attempt)} :
    \E s1 \in {IF queried
               THEN SentTable[[packetBuffer |-> packetBuffer,
                               lastRequestedService |-> lastRequestedService,
                               discoveredConfig |-> discoveredConfig,
                               configURL |-> configURL, udpOut |-> udpOut], sent]
               ELSE [packetBuffer |-> packetBuffer,
                     lastRequestedService |-> lastRequestedService,
                     discoveredConfig |-> discoveredConfig,
                     configURL |-> configURL, udpOut |-> udpOut]} :
      \E s2 \in {IF Len(d) > 0 THEN HandledTable[s1, d] ELSE s1} :
        \E attempted \in {due /\ s2.discoveredConfig.valid} :
          \E fetched \in {attempted /\ fetch.success} :
            /\ packetBuffer' = s2.packetBuffer
            /\ lastRequestedService' = s2.lastRequestedService
            /\ discoveredConfig' = s2.discoveredConfig
            /\ configURL' = s2.configURL
            /\ udpOut' = s2.udpOut
            /\ main' = [main EXCEPT
                          !.lastQueryTime = IF queried THEN Millis ELSE @,
                          !.last_config_fetch_attempt = IF due THEN Millis ELSE @,
                          !.mqtt_config = IF fetched THEN fetch.config ELSE @,
                          !.config_fetched = fetched,
                          !.mqtt_initialized = @ \/ fetched,
                          !.attemptAge = IF attempted THEN 0 ELSE @]
            /\ mqtt' = IF fetched THEN AfterInitMQTT(mqtt, fetch.config) ELSE mqtt
            /\ lastCall' = [op |-> "loop", queried |-> queried,
                            handled |-> Len(d) > 0, attempted |-> attempted,
                            host |-> IF attempted THEN s2.discoveredConfig.ipStr
                                     ELSE <<>>,
                            port |-> IF attempted THEN s2.discoveredConfig.port
                                     ELSE 0,
                            published |-> FALSE]

\* loop() without the test of config_fetched
loop_NoLatch ==
  /\ lastCall.op # "none"
  /\ \E d \in LoopDatagrams \cup {<<>>}, sent \in BOOLEAN, fetch \in FetchOutcomes :
       Discovering(d, sent, fetch)
  /\ UNCHANGED <<queryTransactionID, rtc, uptime>>

loop ==
  /\ lastCall.op # "none"
  /\ IF main.config_fetched
     THEN \E first \in BOOLEAN, fallback \in BOOLEAN, begun \in BOOLEAN,
             ended \in BOOLEAN : Publishing(first, fallback, begun, ended)
     ELSE \E d \in LoopDatagrams \cup {<<>>}, sent \in BOOLEAN,
             fetch \in FetchOutcomes : Discovering(d, sent, fetch)
  /\ UNCHANGED <<queryTransactionID, rtc, uptime>>

\* millis() reaches the next instant; loop() has run at the present one
elapse ==
  /\ lastCall.op = "loop"
  /\ uptime' = NextInstant(uptime)
  /\ main' = [main EXCEPT
                !.attemptAge =
                   IF @ = -1 THEN -1
                   ELSE Min(FetchTicks,
                            @ + ((NextInstant(uptime) + MillisWrap - uptime) % MillisWrap))]
  /\ lastCall' = [op |-> "elapse"]
  /\ UNCHANGED <<packetBuffer, queryTransactionID, lastRequestedService,
                 discoveredConfig, configURL, udpOut, mqtt, rtc>>

LoopNext ==
  \/ \E sent \in BOOLEAN : setup(sent)
  \/ loop
  \/ elapse
  \/ connectionLost

\* setup() runs, time goes on, and loop() runs at every instant
LoopSpec ==
  /\ Init /\ [][LoopNext]_vars
  /\ WF_vars(\E sent \in BOOLEAN : setup(sent))
  /\ WF_vars(elapse)
  /\ WF_vars(lastCall.op # "loop" /\ loop)

\* a step of loop() that called fetchConfigFromServer
FetchCalledNow == lastCall'.op = "loop" /\ lastCall'.attempted

\* C37 (safety): loop() calls fetchConfigFromServer only with a valid
\* snapshot, with the snapshot's ipStr and port, and never less than
\* CONFIG_FETCH_RETRY_INTERVAL after the previous call.
C37_FetchOnlyValidAndSpaced ==
  [][FetchCalledNow =>
       /\ ~main.config_fetched
       /\ discoveredConfig'.valid
       /\ lastCall'.host = discoveredConfig'.ipStr
       /\ lastCall'.port = discoveredConfig'.port
       /\ (main.attemptAge # -1
             => main.attemptAge * TickMs >= CONFIG_FETCH_RETRY_INTERVAL)]_vars

\* C37: the above, and while config_fetched is false and the snapshot is
\* valid, loop() eventually calls fetchConfigFromServer.
C37_FetchAttempted ==
  /\ C37_FetchOnlyValidAndSpaced
  /\ (~main.config_fetched /\ discoveredConfig.valid)
       ~> (lastCall.op = "loop" /\ lastCall.attempted)

\* a second attempt has been made, for the server of value set 1, and failed
C37_Witness ==
  /\ lastCall.op = "loop" /\ lastCall.attempted
  /\ lastCall.host = discoveredConfig.ipStr /\ lastCall.port = discoveredConfig.port
  /\ discoveredConfig.valid
  /\ ~main.config_fetched
  /\ uptime = 2 * FetchTicks
  /\ main.last_config_fetch_attempt = 2 * FetchTicks
  /\ main.attemptAge = 0

\* C38: once config_fetched is true it stays true, and no step sends an
\* mDNS query, handles an mDNS response or calls fetchConfigFromServer: the
\* socket's output, the packet buffer and the statics of mdns.cpp stay as
\* they are, and so do the times of the last query and of the last attempt.
C38_ConfigFetchedLatch ==
  [][main.config_fetched =>
       /\ main'.config_fetched
       /\ UNCHANGED <<packetBuffer, lastRequestedService, discoveredConfig,
                      configURL, udpOut>>
       /\ main'.lastQueryTime = main.lastQueryTime
       /\ main'.last_config_fetch_attempt = main.last_config_fetch_attempt
       /\ main'.mqtt_config = main.mqtt_config
       /\ (lastCall'.op = "loop"
             => ~lastCall'.queried /\ ~lastCall'.handled /\ ~lastCall'.attempted)]_vars

\* loop() has published with config_fetched set, a query interval and more
\* after the fetch
C38_Witness ==
  /\ main.config_fetched
  /\ lastCall.op = "loop" /\ lastCall.published
  /\ QueryDue(main.lastQueryTime)
  /\ FetchDue(main.last_config_fetch_attempt)
  /\ discoveredConfig.valid

\* C39: whenever config_fetched is true, the configuration parsed from the
\* fetched body names a broker and initMQTT has taken it over, so that
\* maintainMQTT can connect.
C39_FetchedMeansUsable ==
  main.config_fetched
    => /\ main.mqtt_config.mqtt_broker \notin {Null, <<>>}
       /\ mqtt.mqtt_initialized
       /\ mqtt.mqtt_config_copy = main.mqtt_config

====
